---------------------------- MODULE Spec2Model ----------------------------
(***************************************************************************)
(* Model of the resource and execution core of the dragonball VMM:         *)
(*   - ResourceManager        (src/dragonball/src/resource_manager.rs)     *)
(*   - AddressSpaceMgr        (src/dragonball/src/address_space_manager.rs)*)
(*   - VcpuManager            (src/dragonball/src/vcpu/vcpu_manager.rs)    *)
(* Addresses, interrupt numbers and slot numbers are scaled down: one      *)
(* model unit stands for one allocation granule of the pool.               *)
(***************************************************************************)
EXTENDS Integers, Sequences, FiniteSets, TLC

VARIABLES
    pools,      \* ResourceManager: pool id -> set of allocated ranges <<min, max>>
    rm_last,    \* ResourceManager: outcome of the last operation
    as_mgr,     \* AddressSpaceMgr: the manager's fields and the last call's outcome
    vm,         \* VcpuManager: the manager's fields
    mgr,        \* VcpuManager: position of the thread inside a manager call
    threads,    \* per-vCPU OS thread: state and pending events
    chan,       \* the upcall request in the guest, the vcpu state channel, the sync receiver
    callers,    \* ResourceManager: the threads that call it and what they were granted
    guest_memory, \* the shared guest memory handle and the snapshots taken from it
    prealloc    \* AddressSpaceMgr: the prefault workers and the memory they touch

vars == <<pools, rm_last, as_mgr, vm, mgr, threads, chan, callers, guest_memory, prealloc>>

NoneVal == -1

Min(S) == CHOOSE x \in S : \A y \in S : x <= y

Max(S) == CHOOSE x \in S : \A y \in S : x >= y

Pow2(n) == 2 ^ n

(***************************************************************************)
(* Bounds of the model.                                                    *)
(***************************************************************************)
LegacySpan == 1        \* number of allocatable legacy irqs above LEGACY_IRQ_BASE
MsiSpan == 3           \* number of MSI irqs
PioBits == 1           \* width of a PIO address (u16 in the source)
LowMemUnits == 2       \* guest memory below the low MMIO hole
HoleUnits == 2         \* size of the low MMIO hole
HighMemUnits == 4      \* guest memory above the low MMIO hole
HighMmioUnits == 1     \* MMIO space above guest memory
MaxKvmMemSlot == 3     \* max_kvm_mem_slot given to ResourceManager::new
MaxSize == 2           \* largest size of one request
MaxReq == 2            \* longest request list of allocate_device_resources
MaxLive == 2           \* most ranges allocated by callers at one time, over all pools
MaxRegions == 3        \* most NUMA region infos given to create_address_space
MaxRegionSize == 3     \* largest size of one NUMA region info (in MiB, scaled)
MaxVcpu == 2           \* vcpu_config.max_vcpu_count
MaxFaults == 1         \* most failures injected in one run of the vCPU manager

(***************************************************************************)
(* Layout constants (dbs_boot::layout, scaled) and resource_manager.rs.    *)
(***************************************************************************)
LEGACY_IRQ_BASE == 5
LEGACY_IRQ_MAX == LEGACY_IRQ_BASE + LegacySpan
SHARED_IRQ == LEGACY_IRQ_BASE
MSI_IRQ_BASE == 24
MSI_IRQ_MAX == MSI_IRQ_BASE + MsiSpan - 1
PIO_MIN == 0
PIO_MAX == Pow2(PioBits) - 1
GUEST_MEM_START == 0
MMIO_LOW_START == GUEST_MEM_START + LowMemUnits
MMIO_LOW_END == MMIO_LOW_START + HoleUnits - 1
GUEST_MEM_END == MMIO_LOW_END + HighMemUnits
GUEST_PHYS_END == GUEST_MEM_END + HighMmioUnits
X86_RESERVED_SIZE == 1
MIB_SHIFT == 1          \* size_in_mib << 20, scaled: one MiB is 2 address units

PoolIds == {"legacy", "msi", "pio", "mmio", "mem", "slot"}

Overlap(a, b) == a[1] <= b[2] /\ b[1] <= a[2]

(***************************************************************************)
(* dbs_allocator: Constraint and IntervalTree.  A tree is modelled by the  *)
(* ranges inserted at initialisation and the set of allocated ranges; the  *)
(* free nodes are what is left (adjacent free nodes are merged on free).   *)
(***************************************************************************)
Constraint(size, align, min, max) ==
    [size |-> size, align |-> align, min |-> min, max |-> max]

ConstraintNew(size) == Constraint(size, 1, 0, NoneVal)

ConstraintRange(size, align, lo, hi) ==
    IF lo = NoneVal THEN Constraint(size, align, 0, NoneVal)
    ELSE Constraint(size, align, lo, hi)

NodeFits(ranges, used, c, b) ==
    /\ b % c.align = 0
    /\ b >= c.min
    /\ (c.max = NoneVal \/ b + c.size - 1 <= c.max)
    /\ \E r \in ranges : r[1] <= b /\ b + c.size - 1 <= r[2]
    /\ \A u \in used : ~Overlap(u, <<b, b + c.size - 1>>)

\* IntervalTree::allocate: the lowest free interval satisfying the constraint.
IntervalTreeAllocate(ranges, used, c) ==
    LET cand == {b \in UNION {r[1]..r[2] : r \in ranges} : NodeFits(ranges, used, c, b)}
    IN  IF c.size <= 0 \/ cand = {} THEN NoneVal ELSE Min(cand)

\* IntervalTree::free: the key must be an allocated range (else a panic).
IntervalTreeFreeOk(used, key) == key \in used

(***************************************************************************)
(* ResoureManagerBuilder: the ranges inserted into each pool.              *)
(***************************************************************************)
init_legacy_irq_pool_with_base == {<<LEGACY_IRQ_BASE, LEGACY_IRQ_MAX>>}

init_legacy_irq_pool == {<<LEGACY_IRQ_BASE + 1, LEGACY_IRQ_MAX>>}

init_msi_irq_pool == {<<MSI_IRQ_BASE, MSI_IRQ_MAX>>}

init_pio_pool == {<<PIO_MIN, PIO_MAX>>}

MemHoleSplit ==
    ~(GUEST_MEM_END < MMIO_LOW_START \/ GUEST_MEM_START > MMIO_LOW_END
        \/ MMIO_LOW_START = MMIO_LOW_END)

init_mmio_pool ==
    {<<MMIO_LOW_START, MMIO_LOW_END>>}
        \cup (IF GUEST_MEM_END < GUEST_PHYS_END
              THEN {<<GUEST_MEM_END + 1, GUEST_PHYS_END>>} ELSE {})

\* the range below 4G reserved for the x86 system devices, allocated at init
init_mmio_reserved ==
    IF MemHoleSplit
    THEN LET c == Constraint(X86_RESERVED_SIZE, 1,
                             MMIO_LOW_END + 1 - X86_RESERVED_SIZE, MMIO_LOW_END)
             b == IntervalTreeAllocate(init_mmio_pool, {}, c)
         IN  {<<b, b + X86_RESERVED_SIZE - 1>>}
    ELSE {}

init_mem_pool_helper ==
    IF ~MemHoleSplit
    THEN {<<GUEST_MEM_START, GUEST_MEM_END>>}
    ELSE (IF MMIO_LOW_START > GUEST_MEM_START
          THEN {<<GUEST_MEM_START, MMIO_LOW_START - 1>>} ELSE {})
         \cup (IF MMIO_LOW_END < GUEST_MEM_END
               THEN {<<MMIO_LOW_END + 1, GUEST_MEM_END>>} ELSE {})

\* a variant with one more slot
init_kvm_mem_slot_pool_wider == {<<0, MaxKvmMemSlot + 1>>}

init_kvm_mem_slot_pool == {<<0, MaxKvmMemSlot>>}

PoolRanges(p) ==
    CASE p = "legacy" -> init_legacy_irq_pool
      [] p = "msi" -> init_msi_irq_pool
      [] p = "pio" -> init_pio_pool
      [] p = "mmio" -> init_mmio_pool
      [] p = "mem" -> init_mem_pool_helper
      [] p = "slot" -> init_kvm_mem_slot_pool

\* ResourceManager::new
ResourceManagerNew ==
    [p \in PoolIds |-> IF p = "mmio" THEN init_mmio_reserved ELSE {}]

(***************************************************************************)
(* ResourceManager operations.  Each takes the pools P and gives the new   *)
(* pools, the returned value (NoneVal for None) and whether it panicked.   *)
(***************************************************************************)
Ret(P, ret, panic) == [pools |-> P, ret |-> ret, panic |-> panic]

PoolAllocate(P, p, c) ==
    LET b == IntervalTreeAllocate(PoolRanges(p), P[p], c)
    IN  IF b = NoneVal THEN Ret(P, NoneVal, FALSE)
        ELSE Ret([P EXCEPT ![p] = @ \cup {<<b, b + c.size - 1>>}], b, FALSE)

PoolFree(P, p, key) ==
    IF IntervalTreeFreeOk(P[p], key)
    THEN Ret([P EXCEPT ![p] = @ \ {key}], NoneVal, FALSE)
    ELSE Ret(P, NoneVal, TRUE)

\* a variant that takes the shared irq from the pool like any fixed irq
allocate_legacy_irq_shared_from_pool(P, shared, fixed) ==
    PoolAllocate(P, "legacy",
        IF shared THEN Constraint(1, 1, SHARED_IRQ, SHARED_IRQ)
        ELSE IF fixed = NoneVal THEN ConstraintNew(1) ELSE Constraint(1, 1, fixed, fixed))

allocate_legacy_irq(P, shared, fixed) ==
    IF shared THEN Ret(P, SHARED_IRQ, FALSE)
    ELSE PoolAllocate(P, "legacy",
            IF fixed = NoneVal THEN ConstraintNew(1) ELSE Constraint(1, 1, fixed, fixed))

\* a variant that ignores an irq outside the legacy range
free_legacy_irq_lenient(P, irq) ==
    IF irq = SHARED_IRQ \/ ~(irq >= LEGACY_IRQ_BASE /\ irq <= LEGACY_IRQ_MAX)
    THEN Ret(P, NoneVal, FALSE)
    ELSE PoolFree(P, "legacy", <<irq, irq>>)

free_legacy_irq(P, irq) ==
    IF irq = SHARED_IRQ THEN Ret(P, NoneVal, FALSE)
    ELSE IF ~(irq >= LEGACY_IRQ_BASE /\ irq <= LEGACY_IRQ_MAX) THEN Ret(P, NoneVal, TRUE)
    ELSE PoolFree(P, "legacy", <<irq, irq>>)

allocate_msi_irq(P, count) == PoolAllocate(P, "msi", ConstraintNew(count))

\* a variant that does not align the base
allocate_msi_irq_aligned_any_base(P, count) == PoolAllocate(P, "msi", ConstraintNew(count))

allocate_msi_irq_aligned(P, count) ==
    PoolAllocate(P, "msi", Constraint(count, count, 0, NoneVal))

free_msi_irq(P, irq, count) ==
    IF irq < MSI_IRQ_BASE \/ count = 0 \/ irq + count - 1 > MSI_IRQ_MAX
    THEN Ret(P, NoneVal, TRUE)
    ELSE PoolFree(P, "msi", <<irq, irq + count - 1>>)

\* a variant that returns the address without recording the range as allocated
allocate_pio_address_unrecorded(P, c) ==
    Ret(P, IntervalTreeAllocate(PoolRanges("pio"), P["pio"], c), FALSE)

allocate_pio_address(P, c) == PoolAllocate(P, "pio", c)

\* base.checked_add(size) is None when the u16 sum overflows
free_pio_address(P, base, size) ==
    IF base + size > PIO_MAX THEN Ret(P, NoneVal, TRUE)
    ELSE PoolFree(P, "pio", <<base, base + size - 1>>)

allocate_mmio_address(P, c) == PoolAllocate(P, "mmio", c)

\* the u64 sum base + size cannot overflow for an address below GUEST_PHYS_END
free_mmio_address(P, base, size) == PoolFree(P, "mmio", <<base, base + size - 1>>)

\* a variant that returns the address without recording the range as allocated
allocate_mem_address_unrecorded(P, c) ==
    Ret(P, IntervalTreeAllocate(PoolRanges("mem"), P["mem"], c), FALSE)

allocate_mem_address(P, c) == PoolAllocate(P, "mem", c)

free_mem_address(P, base, size) ==
    IF base < GUEST_MEM_START \/ base + size > GUEST_MEM_END THEN Ret(P, NoneVal, TRUE)
    ELSE PoolFree(P, "mem", <<base, base + size - 1>>)

\* a variant that ignores the fixed slot number
allocate_kvm_mem_slot_ignoring_fixed(P, size, fixed) ==
    PoolAllocate(P, "slot", ConstraintNew(size))

\* a variant that returns the slot without recording it as allocated
allocate_kvm_mem_slot_unrecorded(P, size, fixed) ==
    Ret(P, IntervalTreeAllocate(PoolRanges("slot"), P["slot"],
              IF fixed = NoneVal THEN ConstraintNew(size) ELSE Constraint(size, 1, fixed, fixed)),
        FALSE)

allocate_kvm_mem_slot(P, size, fixed) ==
    PoolAllocate(P, "slot",
        IF fixed = NoneVal THEN ConstraintNew(size) ELSE Constraint(size, 1, fixed, fixed))

free_kvm_mem_slot(P, slot) == PoolFree(P, "slot", <<slot, slot>>)

(***************************************************************************)
(* allocate_device_resources / free_device_resources.                      *)
(* A request is [k, lo, hi, align, size]: lo/hi hold the optional range    *)
(* (or the optional fixed irq / slot in lo), NoneVal when absent.          *)
(* A resource is [k, base, size].                                          *)
(***************************************************************************)
Req(k, lo, hi, align, size) == [k |-> k, lo |-> lo, hi |-> hi, align |-> align, size |-> size]

Resource(k, base, size) == [k |-> k, base |-> base, size |-> size]

\* one arm of the match in allocate_device_resources
AllocateRequest(P, r, shared_irq) ==
    CASE r.k = "PioAddress" ->
            allocate_pio_address(P, ConstraintRange(r.size, r.align, r.lo, r.hi))
      [] r.k = "MmioAddress" ->
            allocate_mmio_address(P, ConstraintRange(r.size, r.align, r.lo, r.hi))
      [] r.k = "MemAddress" ->
            allocate_mem_address(P, ConstraintRange(r.size, r.align, r.lo, r.hi))
      [] r.k = "LegacyIrq" -> allocate_legacy_irq(P, shared_irq, r.lo)
      [] r.k = "PciMsiIrq" -> allocate_msi_irq_aligned(P, r.size)
      [] r.k = "PciMsixIrq" -> allocate_msi_irq(P, r.size)
      [] r.k = "GenericIrq" -> allocate_msi_irq(P, r.size)
      [] r.k = "KvmMemSlot" -> allocate_kvm_mem_slot(P, r.size, r.lo)

\* the Resource built from a granted request
GrantedResource(r, base) ==
    CASE r.k = "PioAddress" -> Resource("PioAddressRange", base, r.size)
      [] r.k = "MmioAddress" -> Resource("MmioAddressRange", base, r.size)
      [] r.k = "MemAddress" -> Resource("MemAddressRange", base, r.size)
      [] r.k = "LegacyIrq" -> Resource("LegacyIrq", base, NoneVal)
      [] r.k \in {"PciMsiIrq", "PciMsixIrq", "GenericIrq"} -> Resource("MsiIrq", base, r.size)
      [] r.k = "KvmMemSlot" -> Resource("KvmMemSlot", base, NoneVal)

FreeResource(P, res) ==
    CASE res.k = "PioAddressRange" -> free_pio_address(P, res.base, res.size)
      [] res.k = "MmioAddressRange" -> free_mmio_address(P, res.base, res.size)
      [] res.k = "MemAddressRange" -> free_mem_address(P, res.base, res.size)
      [] res.k = "LegacyIrq" -> free_legacy_irq(P, res.base)
      [] res.k = "MsiIrq" -> free_msi_irq(P, res.base, res.size)
      [] res.k = "KvmMemSlot" -> free_kvm_mem_slot(P, res.base)

RECURSIVE FreeFrom(_, _, _)
FreeFrom(P, resources, i) ==
    IF i > Len(resources) THEN Ret(P, NoneVal, FALSE)
    ELSE LET f == FreeResource(P, resources[i])
         IN  IF f.panic THEN f ELSE FreeFrom(f.pools, resources, i + 1)

\* frees the resources in order; a panic stops the loop where it happens
free_device_resources(P, resources) == FreeFrom(P, resources, 1)

AdrResult(P, result, resources) == [pools |-> P, result |-> result, resources |-> resources]

free_allocated_resources(P, resources) ==
    LET f == free_device_resources(P, resources)
    IN  IF f.panic THEN AdrResult(f.pools, "panic", <<>>)
        ELSE AdrResult(f.pools, "NoAvailResource", <<>>)

RECURSIVE AdrFrom(_, _, _, _, _)
AdrFrom(P, requests, shared_irq, i, resources) ==
    IF i > Len(requests) THEN AdrResult(P, "Ok", resources)
    ELSE LET a == AllocateRequest(P, requests[i], shared_irq)
         IN  IF a.ret = NoneVal THEN free_allocated_resources(a.pools, resources)
             ELSE AdrFrom(a.pools, requests, shared_irq, i + 1,
                          Append(resources, GrantedResource(requests[i], a.ret)))

allocate_device_resources(P, requests, shared_irq) ==
    AdrFrom(P, requests, shared_irq, 1, <<>>)

(***************************************************************************)
(* Inputs of the resource manager operations.                              *)
(***************************************************************************)
Sizes == {1, MaxSize}

\* a PIO size is a u16: it cannot hold the size of the whole PIO space
PioSizes == {s \in Sizes : s <= PIO_MAX}

Aligns == {1, 2}

\* the ranges allocated by callers (all but the reservation made at initialisation)
Live(P) == Cardinality(P["legacy"]) + Cardinality(P["msi"]) + Cardinality(P["pio"])
            + Cardinality(P["mmio"] \ init_mmio_reserved) + Cardinality(P["mem"])
            + Cardinality(P["slot"])

FixedIrqs == {NoneVal} \cup ((LEGACY_IRQ_BASE - 1)..(LEGACY_IRQ_MAX + 1))

FixedSlots == {NoneVal} \cup (0..(MaxKvmMemSlot + 1))

PioConstraints ==
    {ConstraintRange(s, a, NoneVal, NoneVal) : s \in PioSizes, a \in Aligns}
        \cup {Constraint(s, 1, PIO_MAX + 1 - s, PIO_MAX) : s \in PioSizes}

MmioConstraints ==
    {ConstraintRange(s, a, NoneVal, NoneVal) : s \in Sizes, a \in Aligns}
        \cup {Constraint(s, 1, GUEST_MEM_END + 1, NoneVal) : s \in Sizes}

MemConstraints ==
    {ConstraintRange(s, a, NoneVal, NoneVal) : s \in Sizes, a \in Aligns}
        \cup {Constraint(s, 1, GUEST_MEM_END + 1 - s, GUEST_MEM_END) : s \in Sizes}

Requests ==
    {Req("PioAddress", NoneVal, NoneVal, 1, s) : s \in PioSizes}
    \cup {Req("PioAddress", PIO_MAX + 1 - s, PIO_MAX, 1, s) : s \in PioSizes}
    \cup {Req("MmioAddress", NoneVal, NoneVal, 1, s) : s \in Sizes}
    \cup {Req("MemAddress", NoneVal, NoneVal, 1, 1)}
    \cup {Req("MemAddress", GUEST_MEM_END + 1 - s, GUEST_MEM_END, 1, s) : s \in Sizes}
    \cup {Req("LegacyIrq", i, NoneVal, 1, 1) : i \in {NoneVal, LEGACY_IRQ_BASE + 1, LEGACY_IRQ_MAX + 1}}
    \cup {Req("PciMsiIrq", NoneVal, NoneVal, 1, s) : s \in Sizes}
    \cup {Req("PciMsixIrq", NoneVal, NoneVal, 1, MaxSize), Req("GenericIrq", NoneVal, NoneVal, 1, 1)}
    \cup {Req("KvmMemSlot", NoneVal, NoneVal, 1, s) : s \in Sizes}
    \cup {Req("KvmMemSlot", 0, NoneVal, 1, 1)}

(***************************************************************************)
(* Actions of the resource manager.  A panic ends the manager's run.       *)
(***************************************************************************)
RmLast(op, res) == [op |-> op, res |-> res]

RmRunning == rm_last.res # "panic"

RmOthers == UNCHANGED <<as_mgr, vm, mgr, threads, chan, callers, guest_memory, prealloc>>

\* the outcome of an allocate_* call
RmAllocated(op, r) ==
    /\ pools' = r.pools
    /\ rm_last' = RmLast(op, IF r.ret = NoneVal THEN "None" ELSE "Some")
    /\ RmOthers

\* the outcome of a free_* call
RmFreed(op, r) ==
    /\ pools' = r.pools
    /\ rm_last' = RmLast(op, IF r.panic THEN "panic" ELSE "Ok")
    /\ RmOthers

AllocateLegacyIrq ==
    /\ RmRunning /\ Live(pools) < MaxLive
    /\ \E shared \in BOOLEAN, fixed \in FixedIrqs :
          RmAllocated("allocate_legacy_irq", allocate_legacy_irq(pools, shared, fixed))

FreeLegacyIrq ==
    /\ RmRunning
    /\ \E irq \in (LEGACY_IRQ_BASE - 1)..(LEGACY_IRQ_MAX + 1) :
          RmFreed("free_legacy_irq", free_legacy_irq(pools, irq))

AllocateMsiIrq ==
    /\ RmRunning /\ Live(pools) < MaxLive
    /\ \E count \in Sizes :
          RmAllocated("allocate_msi_irq", allocate_msi_irq(pools, count))

AllocateMsiIrqAligned ==
    /\ RmRunning /\ Live(pools) < MaxLive
    /\ \E count \in Sizes :
          RmAllocated("allocate_msi_irq_aligned", allocate_msi_irq_aligned(pools, count))

FreeMsiIrq ==
    /\ RmRunning
    /\ \E irq \in MSI_IRQ_BASE..MSI_IRQ_MAX, count \in Sizes :
          RmFreed("free_msi_irq", free_msi_irq(pools, irq, count))

AllocatePioAddress ==
    /\ RmRunning /\ Live(pools) < MaxLive
    /\ \E c \in PioConstraints :
          RmAllocated("allocate_pio_address", allocate_pio_address(pools, c))

FreePioAddress ==
    /\ RmRunning
    /\ \E base \in PIO_MIN..PIO_MAX, size \in PioSizes :
          RmFreed("free_pio_address", free_pio_address(pools, base, size))

AllocateMmioAddress ==
    /\ RmRunning /\ Live(pools) < MaxLive
    /\ \E c \in MmioConstraints :
          RmAllocated("allocate_mmio_address", allocate_mmio_address(pools, c))

FreeMmioAddress ==
    /\ RmRunning
    /\ \E base \in MMIO_LOW_START..GUEST_PHYS_END, size \in Sizes :
          RmFreed("free_mmio_address", free_mmio_address(pools, base, size))

AllocateMemAddress ==
    /\ RmRunning /\ Live(pools) < MaxLive
    /\ \E c \in MemConstraints :
          RmAllocated("allocate_mem_address", allocate_mem_address(pools, c))

FreeMemAddress ==
    /\ RmRunning
    /\ \E base \in GUEST_MEM_START..GUEST_MEM_END, size \in Sizes :
          RmFreed("free_mem_address", free_mem_address(pools, base, size))

\* a call of allocate_kvm_mem_slot, however many ranges are allocated
AllocateKvmMemSlotAny ==
    /\ RmRunning
    /\ \E size \in Sizes, fixed \in FixedSlots :
          RmAllocated("allocate_kvm_mem_slot", allocate_kvm_mem_slot(pools, size, fixed))

AllocateKvmMemSlot == Live(pools) < MaxLive /\ AllocateKvmMemSlotAny

FreeKvmMemSlot ==
    /\ RmRunning
    /\ \E slot \in 0..(MaxKvmMemSlot + 1) :
          RmFreed("free_kvm_mem_slot", free_kvm_mem_slot(pools, slot))

AllocateDeviceResources ==
    /\ RmRunning /\ Live(pools) < MaxLive
    /\ \E n \in 1..Min({MaxReq, MaxLive - Live(pools)}) :
         \E requests \in [1..n -> Requests], shared_irq \in BOOLEAN :
            LET r == allocate_device_resources(pools, requests, shared_irq)
            IN  /\ pools' = r.pools
                /\ rm_last' = RmLast("allocate_device_resources", r.result)
                /\ RmOthers

NextRM ==
    \/ AllocateLegacyIrq \/ FreeLegacyIrq
    \/ AllocateMsiIrq \/ AllocateMsiIrqAligned \/ FreeMsiIrq
    \/ AllocatePioAddress \/ FreePioAddress
    \/ AllocateMmioAddress \/ FreeMmioAddress
    \/ AllocateMemAddress \/ FreeMemAddress
    \/ AllocateKvmMemSlot \/ FreeKvmMemSlot
    \/ AllocateDeviceResources

InitRM ==
    /\ pools = ResourceManagerNew
    /\ rm_last = RmLast("new", "Ok")

(***************************************************************************)
(* Several threads calling one ResourceManager.  Every pool is behind its  *)
(* own Mutex and each allocate_* / free_* holds the lock of its pool from  *)
(* lock() to its return, so one such call is one step;                     *)
(* allocate_device_resources takes no lock of its own and other threads    *)
(* run between the calls it makes.  A panic of one caller ends the run.    *)
(* callers.owned is the set of ranges <<pool, min, max>> returned by       *)
(* successful calls and not freed since; a caller frees only such ranges.  *)
(* A caller inside allocate_device_resources is                            *)
(*   [pc, left, shared, resources, granted]: left requests still to        *)
(*   process, the resources granted so far and their ranges.               *)
(* callers.undone records that some failed allocate_device_resources has   *)
(* returned after freeing at least one resource.                           *)
(***************************************************************************)
Callers == {"t1", "t2"}

CallerIdle ==
    [pc |-> "idle", left |-> 0, shared |-> FALSE, resources |-> <<>>, granted |-> {}]

PoolOfRequest(k) ==
    CASE k = "PioAddress" -> "pio"
      [] k = "MmioAddress" -> "mmio"
      [] k = "MemAddress" -> "mem"
      [] k = "LegacyIrq" -> "legacy"
      [] k \in {"PciMsiIrq", "PciMsixIrq", "GenericIrq"} -> "msi"
      [] k = "KvmMemSlot" -> "slot"

\* the request never takes the lock of its pool
Lockless(r, shared_irq) == r.k = "LegacyIrq" /\ shared_irq

\* the range of the pool a granted request holds (none for the shared irq)
GrantedRanges(r, shared_irq, base) ==
    IF base = NoneVal \/ Lockless(r, shared_irq) THEN {}
    ELSE {<<PoolOfRequest(r.k), base, base + (IF r.k = "LegacyIrq" THEN 1 ELSE r.size) - 1>>}

\* the resource a caller passes to free an owned range
OwnedResource(o) ==
    CASE o[1] = "pio" -> Resource("PioAddressRange", o[2], o[3] - o[2] + 1)
      [] o[1] = "mmio" -> Resource("MmioAddressRange", o[2], o[3] - o[2] + 1)
      [] o[1] = "mem" -> Resource("MemAddressRange", o[2], o[3] - o[2] + 1)
      [] o[1] = "legacy" -> Resource("LegacyIrq", o[2], NoneVal)
      [] o[1] = "msi" -> Resource("MsiIrq", o[2], o[3] - o[2] + 1)
      [] o[1] = "slot" -> Resource("KvmMemSlot", o[2], NoneVal)

\* the requests the concurrent callers make: every kind of resource, one that
\* always fails and the ones whose rollback panics
ConcRequests ==
    {Req("PioAddress", NoneVal, NoneVal, 1, 1), Req("PioAddress", PIO_MAX, PIO_MAX, 1, 1),
     Req("MmioAddress", NoneVal, NoneVal, 1, 1), Req("MemAddress", NoneVal, NoneVal, 1, 1),
     Req("LegacyIrq", NoneVal, NoneVal, 1, 1), Req("LegacyIrq", LEGACY_IRQ_MAX + 1, NoneVal, 1, 1),
     Req("PciMsiIrq", NoneVal, NoneVal, 1, MaxSize), Req("GenericIrq", NoneVal, NoneVal, 1, 1),
     Req("KvmMemSlot", NoneVal, NoneVal, 1, 1), Req("KvmMemSlot", NoneVal, NoneVal, 1, MaxSize)}

RECURSIVE LeftOf(_)
LeftOf(S) ==
    IF S = {} THEN 0
    ELSE LET t == CHOOSE x \in S : TRUE IN callers.thr[t].left + LeftOf(S \ {t})

\* the ranges allocated plus those the running batch calls may still take
Committed == Live(pools) + LeftOf(Callers)

ConcOthers == UNCHANGED <<rm_last, as_mgr, vm, mgr, threads, chan, guest_memory, prealloc>>

\* no caller has panicked
CallersRunning == \A t \in Callers : callers.thr[t].pc # "panicked"

\* free of res by caller t
FreeBy(t, res, after_ok) ==
    LET f == FreeResource(pools, res)
    IN  IF f.panic
        THEN /\ pools' = pools
             /\ callers' = [callers EXCEPT !.thr[t].pc = "panicked", !.thr[t].left = 0]
        ELSE /\ pools' = f.pools
             /\ callers' = after_ok

\* one allocate_* call
CallAllocate ==
    /\ CallersRunning
    /\ Committed < MaxLive
    /\ \E t \in Callers, r \in ConcRequests :
       \E shared \in (IF r.k = "LegacyIrq" THEN BOOLEAN ELSE {FALSE}) :
          /\ callers.thr[t].pc = "idle"
          /\ LET a == AllocateRequest(pools, r, shared)
             IN  /\ pools' = a.pools
                 /\ callers' = [callers EXCEPT
                        !.owned = @ \cup GrantedRanges(r, shared, a.ret)]
    /\ ConcOthers

\* one free_* call, of a range the callers own
CallFree ==
    /\ CallersRunning
    /\ \E t \in Callers, o \in callers.owned :
          /\ callers.thr[t].pc = "idle"
          /\ FreeBy(t, OwnedResource(o), [callers EXCEPT !.owned = @ \ {o}])
    /\ ConcOthers

\* allocate_device_resources is entered (with shared_irq = false: the shared
\* irq is returned without a lock and without a change of the pools)
BatchBegin ==
    /\ CallersRunning
    /\ \E t \in Callers, n \in 1..MaxReq, shared \in {FALSE} :
          /\ callers.thr[t].pc = "idle"
          /\ Committed + n <= MaxLive
          /\ callers' = [callers EXCEPT !.thr[t] =
                 [pc |-> "batch", left |-> n, shared |-> shared, resources |-> <<>>,
                  granted |-> {}]]
    /\ pools' = pools
    /\ ConcOthers

\* one turn of the loop of allocate_device_resources; Ok(resources) is
\* returned after the last request
BatchStep ==
    /\ CallersRunning
    /\ \E t \in Callers, r \in ConcRequests :
          LET c == callers.thr[t]
              a == AllocateRequest(pools, r, c.shared)
              resources == Append(c.resources, GrantedResource(r, a.ret))
              granted == c.granted \cup GrantedRanges(r, c.shared, a.ret)
          IN  /\ c.pc = "batch"
              /\ pools' = a.pools
              /\ callers' =
                    IF a.ret = NoneVal
                    THEN [callers EXCEPT !.thr[t].pc = "rollback", !.thr[t].left = 0]
                    ELSE IF c.left = 1
                    THEN [callers EXCEPT !.thr[t] = CallerIdle, !.owned = @ \cup granted]
                    ELSE [callers EXCEPT !.thr[t].left = @ - 1,
                                         !.thr[t].resources = resources,
                                         !.thr[t].granted = granted]
    /\ ConcOthers

\* one turn of the loop of free_device_resources in free_allocated_resources
RollbackStep ==
    /\ CallersRunning
    /\ \E t \in Callers :
          LET c == callers.thr[t]
          IN  /\ c.pc = "rollback"
              /\ IF c.resources = <<>>
                 THEN /\ pools' = pools
                      /\ callers' = [callers EXCEPT
                             !.thr[t] = CallerIdle,
                             !.undone = @ \/ c.granted # {}]
                 ELSE FreeBy(t, Head(c.resources),
                             [callers EXCEPT !.thr[t].resources = Tail(@)])
    /\ ConcOthers

NextConc == CallAllocate \/ CallFree \/ BatchBegin \/ BatchStep \/ RollbackStep

InitCallers ==
    callers = [owned |-> {}, undone |-> FALSE,
               thr |-> [t \in Callers |-> CallerIdle]]

(***************************************************************************)
(* AddressSpaceMgr::create_address_space.                                  *)
(* A region is [start, len, info]: info is the index of the NumaRegionInfo *)
(* it was made for.  A fault names the call that fails: the k-th           *)
(* create_default_memory_region ("region"), the k-th create_mmap_region    *)
(* or insert_region ("mmap"), the k-th set_user_memory_region ("kvm"), a   *)
(* madvise of the k-th mapping ("madvise"), its mbind ("mbind").           *)
(* mbind_warned tells that a failed mbind was logged.                      *)
(* prealloc_handlers counts the regions whose prefault threads (spawned by  *)
(* create_mmap_region for a huge-page region with eager population) were   *)
(* pushed to the manager.                                                  *)
(***************************************************************************)
Region(start, len, info) == [start |-> start, len |-> len, info |-> info]

Fault(at, k) == [at |-> at, k |-> k]

NoFault == Fault("none", 0)

\* let size = info.size << 20
SizeInBytes(size_in_mib) == size_in_mib * Pow2(MIB_SHIFT)

\* a variant that compares the end of the region with the end of the hole
OutsideHoleUpToHoleEnd(start_addr, size) ==
    start_addr > MMIO_LOW_END \/ start_addr + size <= MMIO_LOW_END + 1

\* Guest memory does not intersect with the MMIO hole.
OutsideHole(start_addr, size) ==
    start_addr > MMIO_LOW_END \/ start_addr + size <= MMIO_LOW_START

LayoutResult(regions, err) == [regions |-> regions, err |-> err]

\* the first loop of create_address_space: one or two regions per info
RECURSIVE LayoutFrom(_, _, _, _, _)
LayoutFrom(infos, fault, i, start_addr, regions) ==
    IF i > Len(infos) THEN LayoutResult(regions, "none")
    ELSE LET size == SizeInBytes(infos[i])
             failsAt(n) == fault.at = "region" /\ fault.k = n
         IN  IF OutsideHole(start_addr, size)
             THEN IF failsAt(Len(regions) + 1)
                  THEN LayoutResult(regions, "CreateAddressSpaceRegion")
                  ELSE LayoutFrom(infos, fault, i + 1, start_addr + size,
                                  Append(regions, Region(start_addr, size, i)))
             ELSE LET below_size == MMIO_LOW_START - start_addr
                      above_size == size - below_size
                      below == Region(start_addr, below_size, i)
                      above == Region(MMIO_LOW_END + 1, above_size, i)
                  IN  IF failsAt(Len(regions) + 1)
                      THEN LayoutResult(regions, "CreateAddressSpaceRegion")
                      ELSE IF failsAt(Len(regions) + 2)
                      THEN LayoutResult(Append(regions, below), "CreateAddressSpaceRegion")
                      ELSE LayoutFrom(infos, fault, i + 1, MMIO_LOW_END + 1 + above_size,
                                      regions \o <<below, above>>)

\* a variant whose first region starts at the hole rather than at GUEST_MEM_START
LayoutFromHole(infos, fault) == LayoutFrom(infos, fault, 1, MMIO_LOW_END + 1, <<>>)

Layout(infos, fault) == LayoutFrom(infos, fault, 1, GUEST_MEM_START, <<>>)

\* a variant that empties base_to_slot when the loop ends in an error
MapResultCleared(P, err, vm_memory, base_to_slot) ==
    [pools |-> P, err |-> err, vm_memory |-> vm_memory,
     base_to_slot |-> IF err = "none" THEN base_to_slot ELSE {}]

MapResult(P, err, vm_memory, base_to_slot) ==
    [pools |-> P, err |-> err, vm_memory |-> vm_memory, base_to_slot |-> base_to_slot]

\* a variant of the second loop that goes on after a failed madvise
RECURSIVE MapFromSoftAdvice(_, _, _, _, _, _)
MapFromSoftAdvice(P, regions, fault, i, vm_memory, base_to_slot) ==
    IF i > Len(regions) THEN MapResult(P, "none", vm_memory, base_to_slot)
    ELSE LET reg == regions[i]
             c == Constraint(reg.len, 1, reg.start, reg.start + reg.len - 1)
             m == allocate_mem_address(P, c)
         IN  IF m.ret = NoneVal THEN MapResult(m.pools, "panic", vm_memory, base_to_slot)
             ELSE IF fault.at = "mmap" /\ fault.k = i
             THEN MapResult(m.pools, "MmapGuestMemory", vm_memory, base_to_slot)
             ELSE LET k == allocate_kvm_mem_slot(m.pools, 1, NoneVal)
                  IN  IF k.ret = NoneVal
                      THEN MapResult(k.pools, "NoAvailableResource",
                                     Append(vm_memory, reg.start), base_to_slot)
                      ELSE IF fault.at = "kvm" /\ fault.k = i
                      THEN MapResult(k.pools, "KvmSetMemorySlot",
                                     Append(vm_memory, reg.start), base_to_slot)
                      ELSE MapFromSoftAdvice(k.pools, regions, fault, i + 1,
                                   Append(vm_memory, reg.start),
                                   base_to_slot \cup {<<reg.start, k.ret>>})

\* the second loop: reserve the range, map it, take a memory slot, register it
RECURSIVE MapFrom(_, _, _, _, _, _)
MapFrom(P, regions, fault, i, vm_memory, base_to_slot) ==
    IF i > Len(regions) THEN MapResult(P, "none", vm_memory, base_to_slot)
    ELSE LET reg == regions[i]
             c == Constraint(reg.len, 1, reg.start, reg.start + reg.len - 1)
             m == allocate_mem_address(P, c)
         IN  IF m.ret = NoneVal THEN MapResult(m.pools, "panic", vm_memory, base_to_slot)
             ELSE IF fault.at = "mmap" /\ fault.k = i
             THEN MapResult(m.pools, "MmapGuestMemory", vm_memory, base_to_slot)
             ELSE IF fault.at = "madvise" /\ fault.k = i
             THEN MapResult(m.pools, "Madvise", vm_memory, base_to_slot)
             ELSE LET k == allocate_kvm_mem_slot(m.pools, 1, NoneVal)
                  IN  IF k.ret = NoneVal
                      THEN MapResult(k.pools, "NoAvailableResource",
                                     Append(vm_memory, reg.start), base_to_slot)
                      ELSE IF fault.at = "kvm" /\ fault.k = i
                      THEN MapResult(k.pools, "KvmSetMemorySlot",
                                     Append(vm_memory, reg.start), base_to_slot)
                      ELSE MapFrom(k.pools, regions, fault, i + 1,
                                   Append(vm_memory, reg.start),
                                   base_to_slot \cup {<<reg.start, k.ret>>})

\* create_mmap_region was called for region fault.k and its mbind failed:
\* warn!("mbind failed ...")
MbindWarned(P, regions, fault) ==
    /\ fault.at = "mbind" /\ fault.k <= Len(regions)
    /\ MapFrom(P, regions, Fault("mmap", fault.k), 1, <<>>, {}).err = "MmapGuestMemory"

\* create_address_space on a default AddressSpaceMgr: the manager afterwards
create_address_space(P, infos, fault) ==
    LET l == Layout(infos, fault)
        m == MapFrom(P, l.regions, fault, 1, <<>>, {})
        failed == l.err # "none"
        err == IF failed THEN l.err ELSE m.err
    IN  [pools |-> IF failed THEN P ELSE m.pools,
         as_mgr |->
            [state |-> IF err = "none" THEN "Ok" ELSE IF err = "panic" THEN "panic" ELSE "Err",
             err |-> err,
             infos |-> infos,
             regions |-> l.regions,
             numa_nodes |-> [j \in 1..Len(l.regions) |->
                                <<l.regions[j].start, l.regions[j].len>>],
             address_space |-> err = "none",
             vm_as |-> err = "none",
             base_to_slot |-> IF failed THEN {} ELSE m.base_to_slot,
             prealloc_handlers |-> IF failed THEN 0 ELSE Len(m.vm_memory),
             mbind_warned |-> ~failed /\ MbindWarned(P, l.regions, fault)]]

AddressSpaceMgrDefault ==
    [state |-> "default", err |-> "none", infos |-> <<>>, regions |-> <<>>,
     numa_nodes |-> <<>>, address_space |-> FALSE, vm_as |-> FALSE, base_to_slot |-> {},
     prealloc_handlers |-> 0, mbind_warned |-> FALSE]

NumaRegionInfos == UNION {[1..n -> 1..MaxRegionSize] : n \in 1..MaxRegions}

Faults ==
    {NoFault} \cup {Fault(at, k) : at \in {"region", "mmap", "madvise", "mbind", "kvm"},
                                  k \in 1..(MaxRegions + 1)}

CreateAddressSpace ==
    /\ as_mgr.state = "default"
    /\ \E infos \in NumaRegionInfos, fault \in Faults :
          LET r == create_address_space(pools, infos, fault)
          IN  /\ as_mgr' = r.as_mgr
              /\ pools' = r.pools
    /\ UNCHANGED <<rm_last, vm, mgr, threads, chan, callers, guest_memory, prealloc>>

NextAS == CreateAddressSpace

InitAS == as_mgr = AddressSpaceMgrDefault

(***************************************************************************)
(* VcpuManager.  The manager is behind a mutex: one call runs at a time    *)
(* (mgr.pc = "idle" between calls) and a call gives way to the vCPU        *)
(* threads only where it blocks: on the barrier and on the joins.          *)
(* A vCPU thread is [state, exit_sent]; it is forgotten once joined:       *)
(*   state     "none", "spawned" (before the barrier), "waiting" (on the   *)
(*             barrier), "blocked" (on a barrier the manager never comes   *)
(*             to), "running", "exited", "panicked"                        *)
(*   exit_sent a VcpuEvent::Exit is in its event channel                   *)
(* join_vcpu_thread gives Ok for an exited thread, Err for a panicked one. *)
(* kvm_vcpus[i] is the kernel's side of vm_fd.create_vcpu(i): 0 when the   *)
(* VM has no vCPU i, 1 when it has one, 2 when it has one and was asked    *)
(* for another, which the kernel refuses.                                  *)
(***************************************************************************)
VcpuIds == 0..(MaxVcpu - 1)

VcpuInfoDefault == [vcpu |-> FALSE, handle |-> FALSE, vcpu_fd |-> FALSE]

ThreadNone == [state |-> "none", exit_sent |-> FALSE]

ThreadSpawned == [state |-> "spawned", exit_sent |-> FALSE]

\* the OS thread id of the thread of vCPU i
ThreadTid(i) == i + 1

RECURSIVE SortedSeq(_)
SortedSeq(S) == IF S = {} THEN <<>> ELSE <<Min(S)>> \o SortedSeq(S \ {Min(S)})

Range(q) == {q[j] : j \in 1..Len(q)}

Reverse(q) == [j \in 1..Len(q) |-> q[Len(q) + 1 - j]]

Truncate(q, n) == IF n >= Len(q) THEN q ELSE SubSeq(q, 1, n)

\* VcpuManager::new up to its check of max_vcpu_count against the kernel's
\* kvm_context.get_max_vcpus()
new_vcpu_manager(max_vcpu_count, kvm_max_vcpu_count) ==
    IF max_vcpu_count > kvm_max_vcpu_count THEN "MaxVcpuLimitation" ELSE "Ok"

\* VcpuManager::new(max_vcpu_count), within the kernel's limit
VcpuManagerWith(max_vcpu_count) ==
    [max_vcpu_count |-> max_vcpu_count,
     vcpu_infos |-> [i \in 0..(max_vcpu_count - 1) |-> VcpuInfoDefault],
     io_manager |-> TRUE,
     vcpus_in_action |-> <<"None", <<>>>>,
     upcall_channel |-> FALSE,
     action_sycn_tx |-> FALSE,
     tids |-> <<>>,
     kvm_vcpus |-> [i \in 0..MaxVcpu |-> 0]]

\* VcpuManager::new with max_vcpu_count = MaxVcpu
VcpuManagerNew == VcpuManagerWith(MaxVcpu)

\* the slots of the vector vcpu_infos as VcpuManager::new built it
SlotIds(v) == 0..(v.max_vcpu_count - 1)

get_vcpus_action(v) == v.vcpus_in_action[1]

set_vcpus_action(v, action, vcpus) == [v EXCEPT !.vcpus_in_action = <<action, vcpus>>]

present_vcpus(v) == SortedSeq({i \in DOMAIN v.vcpu_infos : v.vcpu_infos[i].handle})

present_vcpus_count(v) == Len(present_vcpus(v))

\* the ids the loop of calculate_available_vcpus collects; indexing a slot
\* that does not exist is a panic
calculate_available_vcpus(v, vcpu_count) ==
    IF present_vcpus_count(v) >= vcpu_count THEN [ids |-> <<>>, panic |-> FALSE]
    ELSE LET size == vcpu_count - present_vcpus_count(v)
             free == SortedSeq({i \in SlotIds(v) \cap DOMAIN v.vcpu_infos :
                                    ~v.vcpu_infos[i].handle})
         IN  IF Len(free) < size /\ DOMAIN v.vcpu_infos # SlotIds(v)
             THEN [ids |-> <<>>, panic |-> TRUE]
             ELSE [ids |-> Truncate(free, size), panic |-> FALSE]

calculate_removable_vcpus(v) == present_vcpus(v)

\* the truncation without the reverse before it
SelectLowestIds(cpu_ids, cpu_num_to_be_del) == Truncate(cpu_ids, cpu_num_to_be_del)

\* cpu_ids.reverse(); cpu_ids.truncate(cpu_num_to_be_del)
SelectVcpusToDelete(cpu_ids, cpu_num_to_be_del) ==
    Truncate(Reverse(cpu_ids), cpu_num_to_be_del)

\* sync_action_finish: the sender is taken and the value sent on it; sync is
\* what the receiver of the sender has got
sync_action_finish(v, sync, got_error) ==
    IF ~v.action_sycn_tx THEN [vm |-> v, sync |-> sync]
    ELSE [vm |-> [v EXCEPT !.action_sycn_tx = FALSE],
          sync |-> Append(sync, got_error)]

\* a variant of the check that lets a resize through during a hot-unplug
IsHotpluggingOnlyHotplug(v) == get_vcpus_action(v) = "Hotplug"

\* if self.get_vcpus_action() != VcpuAction::None
IsHotplugging(v) == get_vcpus_action(v) # "None"

\* a barrier for the vCPU threads only
BarrierPartiesWithoutManager(n) == n

\* Barrier::new(available_vcpus.len() + 1)
BarrierParties(n) == n + 1

\* a variant that takes every response for an acknowledgement
AnyResponseIsSuccess(event) == TRUE

\* self.process_cpu_action(success != 0, cpu_count)
EventSuccess(event) == event[1] # 0

\* a join that does not wait for the threads
JoinsAtOnce(T, ids) == TRUE

\* join_vcpu_thread returns once the thread has terminated
JoinsReturn(T, ids) == \A i \in ids : T[i].state \in {"exited", "panicked"}

\* handle.send_event: the channel is closed once the thread has terminated
SendEventOk(T, i) == T[i].state \notin {"none", "exited", "panicked"}

(***************************************************************************)
(* The loops of the manager.  A vCPU fault names the call that fails: the  *)
(* k-th vm_fd.create_vcpu ("vcpu_fd"), create_vcpu_arch or configure       *)
(* ("vcpu_arch"), start_threaded ("start"), recv_timeout expiring          *)
(* ("gettid") or receiving something else than a Tid ("response"), the     *)
(* upcall's send_request ("upcall"), apply_filter ("seccomp").             *)
(***************************************************************************)
CreateResult(v, res, created, panic) ==
    [vm |-> v, res |-> res, created |-> created, panic |-> panic]

\* vm_fd.create_vcpu(cpu_index), failing when the fault strikes or when the
\* VM has a vCPU of that index
KvmCreateVcpu(v, id, failing) ==
    IF failing THEN [vm |-> v, ok |-> FALSE]
    ELSE IF v.kvm_vcpus[id] > 0 THEN [vm |-> [v EXCEPT !.kvm_vcpus[id] = 2], ok |-> FALSE]
    ELSE [vm |-> [v EXCEPT !.kvm_vcpus[id] = 1], ok |-> TRUE]

\* a variant that asks the kernel whether or not a descriptor is cached
VcpuFdUncached(v, id, failing) ==
    LET k == KvmCreateVcpu(v, id, failing)
    IN  IF k.ok THEN [k EXCEPT !.vm.vcpu_infos[id].vcpu_fd = TRUE] ELSE k

\* create_vcpu up to create_vcpu_arch: the cached descriptor, or a new one
\* from the kernel, which is then cached
VcpuFd(v, id, failing) ==
    LET k == KvmCreateVcpu(v, id, failing)
    IN  IF v.vcpu_infos[id].vcpu_fd THEN [vm |-> v, ok |-> TRUE]
        ELSE IF k.ok THEN [k EXCEPT !.vm.vcpu_infos[id].vcpu_fd = TRUE]
        ELSE k

\* a variant that stores the vCPU object before it is configured
RECURSIVE CreateFromStoringEarly(_, _, _, _)
CreateFromStoringEarly(v, ids, j, fault) ==
    IF j > Len(ids) THEN CreateResult(v, "Ok", ids, FALSE)
    ELSE LET id == ids[j]
             fd == VcpuFd(v, id, fault = Fault("vcpu_fd", j))
             stored == [fd.vm EXCEPT !.vcpu_infos[id].vcpu = TRUE]
         IN  IF ~fd.ok THEN CreateResult(fd.vm, "Vcpu", <<>>, FALSE)
             ELSE IF ~v.io_manager THEN CreateResult(fd.vm, "panic", <<>>, TRUE)
             ELSE IF fault = Fault("vcpu_arch", j) THEN CreateResult(stored, "Vcpu", <<>>, FALSE)
             ELSE CreateFromStoringEarly(stored, ids, j + 1, fault)

\* the loop of create_vcpus over the available ids, with create_vcpu inlined
RECURSIVE CreateFrom(_, _, _, _)
CreateFrom(v, ids, j, fault) ==
    IF j > Len(ids) THEN CreateResult(v, "Ok", ids, FALSE)
    ELSE LET id == ids[j]
             fd == VcpuFd(v, id, fault = Fault("vcpu_fd", j))
         IN  IF ~fd.ok THEN CreateResult(fd.vm, "Vcpu", <<>>, FALSE)
             ELSE IF ~v.io_manager THEN CreateResult(fd.vm, "panic", <<>>, TRUE)
             ELSE IF fault = Fault("vcpu_arch", j) THEN CreateResult(fd.vm, "Vcpu", <<>>, FALSE)
             ELSE CreateFrom([fd.vm EXCEPT !.vcpu_infos[id].vcpu = TRUE], ids, j + 1, fault)

\* a variant without the check of vcpu_count
create_vcpus_unchecked(v, vcpu_count, fault) ==
    LET a == calculate_available_vcpus(v, vcpu_count)
    IN  IF a.panic THEN CreateResult(v, "panic", <<>>, TRUE)
        ELSE CreateFrom(v, a.ids, 1, fault)

create_vcpus(v, vcpu_count, fault) ==
    IF vcpu_count > v.max_vcpu_count
    THEN CreateResult(v, "ExpectedVcpuExceedMax", <<>>, FALSE)
    ELSE LET a == calculate_available_vcpus(v, vcpu_count)
         IN  IF a.panic THEN CreateResult(v, "panic", <<>>, TRUE)
             ELSE CreateFrom(v, a.ids, 1, fault)

StartResult(v, T, res, ids, panic) ==
    [vm |-> v, threads |-> T, res |-> res, ids |-> ids, panic |-> panic]

\* a variant whose start_vcpu reads the vCPU object and leaves it in the slot
RECURSIVE StartFromKeepingVcpu(_, _, _, _, _)
StartFromKeepingVcpu(v, T, ids, j, fault) ==
    IF j > Len(ids) THEN StartResult(v, T, "wait", ids, FALSE)
    ELSE LET id == ids[j]
         IN  IF ~v.vcpu_infos[id].vcpu THEN StartResult(v, T, "VcpuNotCreate", ids, FALSE)
             ELSE IF fault = Fault("start", j) THEN StartResult(v, T, "Vcpu", ids, FALSE)
             ELSE StartFromKeepingVcpu([v EXCEPT !.vcpu_infos[id].handle = TRUE],
                                       [T EXCEPT ![id] = ThreadSpawned], ids, j + 1, fault)

\* the loop of activate_vcpus over the available ids, with start_vcpu inlined
RECURSIVE StartFrom(_, _, _, _, _)
StartFrom(v, T, ids, j, fault) ==
    IF j > Len(ids) THEN StartResult(v, T, "wait", ids, FALSE)
    ELSE LET id == ids[j]
             taken == [v EXCEPT !.vcpu_infos[id].vcpu = FALSE]
         IN  IF ~v.vcpu_infos[id].vcpu THEN StartResult(v, T, "VcpuNotCreate", ids, FALSE)
             ELSE IF fault = Fault("start", j) THEN StartResult(taken, T, "Vcpu", ids, FALSE)
             ELSE StartFrom([taken EXCEPT !.vcpu_infos[id].handle = TRUE],
                            [T EXCEPT ![id] = ThreadSpawned], ids, j + 1, fault)

\* activate_vcpus up to barrier.wait(): "wait" when the manager reaches the
\* barrier.  The threads started before a failing start_vcpu stay on a
\* barrier that the manager never comes to.
ActivateStart(v, T, vcpu_count, fault) ==
    IF vcpu_count > v.max_vcpu_count
    THEN StartResult(v, T, "ExpectedVcpuExceedMax", <<>>, FALSE)
    ELSE IF vcpu_count < present_vcpus_count(v) THEN StartResult(v, T, "Ok", <<>>, FALSE)
    ELSE LET a == calculate_available_vcpus(v, vcpu_count)
             r == StartFrom(v, T, a.ids, 1, fault)
         IN  IF a.panic THEN StartResult(v, T, "panic", <<>>, TRUE)
             ELSE IF r.res = "wait" THEN r
             ELSE [r EXCEPT !.threads =
                      [i \in DOMAIN T |->
                          IF i \in Range(a.ids) /\ r.vm.vcpu_infos[i].handle
                             /\ ~v.vcpu_infos[i].handle
                          THEN [r.threads[i] EXCEPT !.state = "blocked"]
                          ELSE r.threads[i]]]

\* get_vcpus_tid and resume_vcpus, after the barrier: the thread ids are
\* appended to shared_info.tids once every thread has answered
get_vcpus_tid(v, T, ids, fault) ==
    IF \E j \in 1..Len(ids) : ~SendEventOk(T, ids[j]) THEN [vm |-> v, res |-> "VcpuEvent"]
    ELSE IF \E j \in 1..Len(ids) : fault = Fault("gettid", j)
    THEN [vm |-> v, res |-> "VcpuGettid"]
    ELSE IF \E j \in 1..Len(ids) : fault = Fault("response", j)
    THEN [vm |-> v, res |-> "VcpuGettid"]
    ELSE [vm |-> [v EXCEPT !.tids = @ \o [k \in 1..Len(ids) |-> <<ids[k], ThreadTid(ids[k])>>]],
          res |-> "Ok"]

ActivateFinish(v, T, ids, fault) == get_vcpus_tid(v, T, ids, fault)

\* the first loop of exit_vcpus: the Exit events
RECURSIVE ExitSendFrom(_, _, _, _)
ExitSendFrom(v, T, ids, j) ==
    IF j > Len(ids) THEN [threads |-> T, res |-> "Ok"]
    ELSE IF ~(ids[j] \in DOMAIN v.vcpu_infos /\ v.vcpu_infos[ids[j]].handle)
    THEN [threads |-> T, res |-> "VcpuNotFound"]
    ELSE IF ~SendEventOk(T, ids[j]) THEN [threads |-> T, res |-> "VcpuEvent"]
    ELSE ExitSendFrom(v, [T EXCEPT ![ids[j]].exit_sent = TRUE], ids, j + 1)

\* send_upcall_action: the request is with the guest
send_upcall_action(c, request) == [c EXCEPT !.guest = request]

\* process_cpu_action past the match: the waiter is released, the action reset
ActionFinish(v, sync) ==
    LET a == sync_action_finish(v, sync, FALSE)
        n == set_vcpus_action(a.vm, "None", <<>>)
    IN  sync_action_finish(n, a.sync, TRUE)

(***************************************************************************)
(* Actions of the vCPU manager, the epoll handler, the guest and the vCPU  *)
(* threads.                                                                *)
(***************************************************************************)
VcpuOthers == UNCHANGED <<pools, rm_last, as_mgr, callers, guest_memory, prealloc>>

VcpuCounts == 0..(MaxVcpu + 1)

\* the ids create_vcpus / activate_vcpus would work on
AvailableIds(v, vcpu_count) ==
    IF vcpu_count > v.max_vcpu_count THEN <<>>
    ELSE calculate_available_vcpus(v, vcpu_count).ids

\* the faults that can strike a call, while the budget of faults lasts
Budget(m, S) == IF m.faults < MaxFaults THEN {NoFault} \cup S ELSE {NoFault}

Charge(m, fault) == IF fault = NoFault THEN m ELSE [m EXCEPT !.faults = @ + 1]

CreateFaults(v, vcpu_count) ==
    LET ids == AvailableIds(v, vcpu_count)
    IN  {Fault("vcpu_fd", k) : k \in {j \in 1..Len(ids) : ~v.vcpu_infos[ids[j]].vcpu_fd}}
            \cup {Fault("vcpu_arch", k) : k \in 1..Len(ids)}

StartFaults(v, vcpu_count) ==
    LET ids == AvailableIds(v, vcpu_count)
    IN  {Fault("start", k) : k \in {j \in 1..Len(ids) :
                                        \A i \in 1..j : v.vcpu_infos[ids[i]].vcpu}}
            \cup (IF vcpu_count <= v.max_vcpu_count /\ vcpu_count < present_vcpus_count(v)
                  THEN {Fault("seccomp", 1)} ELSE {})

FinishFaults(m, T) ==
    (IF \A j \in 1..Len(m.batch) : SendEventOk(T, m.batch[j])
     THEN {Fault("gettid", k) : k \in 1..Len(m.batch)}
             \cup {Fault("response", k) : k \in 1..Len(m.batch)}
             \cup (IF m.ctx = "start_vcpus" THEN {Fault("seccomp", 1)} ELSE {Fault("upcall", 1)})
     ELSE {})

ResizeFaults(v, vcpu_count) ==
    IF IsHotplugging(v) \/ ~v.upcall_channel \/ vcpu_count > v.max_vcpu_count THEN {}
    ELSE IF vcpu_count > present_vcpus_count(v)
    THEN LET ids == AvailableIds(v, vcpu_count)
         IN  CreateFaults(v, vcpu_count) \cup {Fault("start", k) : k \in 1..Len(ids)}
    ELSE IF vcpu_count > 0 /\ vcpu_count < present_vcpus_count(v) THEN {Fault("upcall", 1)}
    ELSE {}

\* the manager call returns res (a panic ends the manager's run)
MgrReturn(m, res) ==
    [m EXCEPT !.pc = IF res = "panic" THEN "panicked" ELSE "idle",
              !.ctx = "none", !.batch = <<>>, !.created = <<>>, !.err = "none"]

\* the manager blocks in ctx, on the barrier or on the joins
MgrBlock(m, pc, ctx, batch, err) ==
    [m EXCEPT !.pc = pc, !.ctx = ctx, !.batch = batch, !.err = err]

MgrIdle == mgr.pc = "idle"

\* one more party reaches the barrier (a vCPU index, NoneVal for the manager):
\* the threads and the manager afterwards
BarrierArrive(m, T, who) ==
    LET full == m.barrier.arrived + 1 >= m.barrier.parties
    IN  [mgr |-> [m EXCEPT !.barrier.arrived = IF full THEN 0 ELSE @ + 1,
                           !.pc = IF full /\ (who = NoneVal \/ m.pc = "barrier")
                                  THEN "released"
                                  ELSE IF who = NoneVal THEN "barrier" ELSE @],
         threads |-> [i \in DOMAIN T |->
                        IF full /\ (T[i].state = "waiting" \/ who = i)
                        THEN [T[i] EXCEPT !.state = "running"]
                        ELSE IF who = i THEN [T[i] EXCEPT !.state = "waiting"]
                        ELSE T[i]]]

\* the manager comes to barrier.wait() in activate_vcpus
MgrAtBarrier(m, T, ctx, ids) ==
    BarrierArrive([MgrBlock(m, "barrier", ctx, ids, "none") EXCEPT
                      !.barrier = [parties |-> BarrierParties(Len(ids)), arrived |-> 0]],
                  T, NoneVal)

\* exit_vcpus called from ctx: the Exit events, then the manager joins
ExitVcpus(v, m, T, ctx, ids, err) ==
    LET e == ExitSendFrom(v, T, ids, 1)
    IN  IF e.res = "Ok"
        THEN [mgr |-> MgrBlock(m, "joining", ctx, ids, err), threads |-> e.threads,
              sent |-> TRUE]
        ELSE [mgr |-> MgrReturn(m, IF ctx = "exit_all_vcpus" THEN e.res ELSE err),
              threads |-> e.threads, sent |-> FALSE]

CreateVcpus ==
    /\ MgrIdle
    /\ \E vcpu_count \in VcpuCounts :
       \E fault \in Budget(mgr, CreateFaults(vm, vcpu_count)) :
          LET r == create_vcpus(vm, vcpu_count, fault)
          IN  /\ vm' = r.vm
              /\ mgr' = MgrReturn(Charge(mgr, fault), r.res)
    /\ UNCHANGED <<threads, chan>>
    /\ VcpuOthers

StartVcpus ==
    /\ MgrIdle
    /\ \E vcpu_count \in VcpuCounts :
       \E fault \in Budget(mgr, StartFaults(vm, vcpu_count)) :
          LET r == ActivateStart(vm, threads, vcpu_count, fault)
              b == MgrAtBarrier(Charge(mgr, fault), r.threads, "start_vcpus", r.ids)
          IN  /\ vm' = r.vm
              /\ IF r.res = "wait"
                 THEN mgr' = b.mgr /\ threads' = b.threads
                 ELSE /\ mgr' = MgrReturn(Charge(mgr, fault),
                                    IF r.res = "Ok" /\ fault = Fault("seccomp", 1)
                                    THEN "SeccompFilters" ELSE r.res)
                      /\ threads' = r.threads
    /\ UNCHANGED chan
    /\ VcpuOthers

SetUpcallChannel ==
    /\ MgrIdle
    /\ ~vm.upcall_channel
    /\ vm' = [vm EXCEPT !.upcall_channel = TRUE]
    /\ mgr' = MgrReturn(mgr, "Ok")
    /\ UNCHANGED <<threads, chan>>
    /\ VcpuOthers

\* the state after a call, and what it returned ("wait" while it is blocked)
Outcome(v, m, T, c, res) == [vm |-> v, mgr |-> m, threads |-> T, chan |-> c, res |-> res]

Returned(v, m, T, c, res) == Outcome(v, MgrReturn(m, res), T, c, res)

\* the vCPUs of created_vcpus that have a thread handle
ActivatedVcpus(v, created_vcpus) ==
    LET HasHandle(id) == v.vcpu_infos[id].handle
    IN  SelectSeq(created_vcpus, HasHandle)

\* do_add_vcpu up to the barrier of activate_vcpus
do_add_vcpu(v, m, T, c, vcpu_count, fault) ==
    IF vcpu_count > v.max_vcpu_count
    THEN Returned(v, m, T, c, "ExpectedVcpuExceedMax")
    ELSE LET cr == create_vcpus(v, vcpu_count, fault)
             a == ActivateStart(cr.vm, T, vcpu_count, fault)
             mc == [m EXCEPT !.created = cr.created]
             b == MgrAtBarrier(mc, a.threads, "do_add_vcpu", a.ids)
             x == ExitVcpus(a.vm, mc, a.threads, "rollback",
                            ActivatedVcpus(a.vm, cr.created), a.res)
         IN  IF cr.res # "Ok" THEN Returned(cr.vm, m, T, c, cr.res)
             ELSE IF a.res = "wait" THEN Outcome(a.vm, b.mgr, b.threads, c, "wait")
             ELSE Outcome(a.vm, x.mgr, x.threads, c, IF x.sent THEN "wait" ELSE a.res)

do_del_vcpu(v, m, T, c, vcpu_count, fault) ==
    LET cpu_ids == calculate_removable_vcpus(v)
        cpu_num_to_be_del == present_vcpus_count(v) - vcpu_count
        selected == SelectVcpusToDelete(cpu_ids, cpu_num_to_be_del)
    IN  IF vcpu_count = 0
        THEN Returned(v, m, T, c, "Vcpu0CanNotBeRemoved")
        ELSE IF cpu_num_to_be_del >= Len(cpu_ids)
        THEN Returned(v, m, T, c, "LackRemovableVcpus")
        ELSE IF fault = Fault("upcall", 1)
        THEN Returned(v, m, T, c, "Upcall")
        ELSE Returned(set_vcpus_action(v, "Hotunplug", selected), m, T,
                      send_upcall_action(c, "DelVcpu"), "Ok")

\* sync_tx: whether a completion sender is given; chan.sync then follows the
\* receiver of the new sender
resize_vcpu(v, m, T, c, vcpu_count, sync_tx, fault) ==
    LET s == [v EXCEPT !.action_sycn_tx = sync_tx]
        cs == IF sync_tx THEN [c EXCEPT !.sync = <<>>] ELSE c
        now_vcpu == present_vcpus_count(s)
        f == sync_action_finish(s, cs.sync, FALSE)
    IN  IF IsHotplugging(v)
        THEN Returned(v, m, T, c, "VcpuIsHotplugging")
        ELSE IF ~s.upcall_channel
        THEN Returned(s, m, T, cs, "UpdateNotAllowedPostBoot")
        ELSE IF vcpu_count = now_vcpu
        THEN Returned(f.vm, m, T, [cs EXCEPT !.sync = f.sync], "Ok")
        ELSE IF vcpu_count > now_vcpu THEN do_add_vcpu(s, m, T, cs, vcpu_count, fault)
        ELSE do_del_vcpu(s, m, T, cs, vcpu_count, fault)

ResizeVcpu ==
    /\ MgrIdle
    /\ \E vcpu_count \in VcpuCounts, sync_tx \in BOOLEAN :
       \E fault \in Budget(mgr, ResizeFaults(vm, vcpu_count)) :
          LET r == resize_vcpu(vm, Charge(mgr, fault), threads, chan, vcpu_count, sync_tx, fault)
          IN  vm' = r.vm /\ mgr' = r.mgr /\ threads' = r.threads /\ chan' = r.chan
    /\ VcpuOthers

\* the manager leaves barrier.wait(): the rest of activate_vcpus and of its caller
ActivateContinue ==
    /\ mgr.pc = "released"
    /\ \E fault \in Budget(mgr, FinishFaults(mgr, threads)) :
          LET f == ActivateFinish(vm, threads, mgr.batch, fault)
              m == Charge(mgr, fault)
              x == ExitVcpus(f.vm, m, threads, "rollback",
                             ActivatedVcpus(f.vm, mgr.created), f.res)
          IN  IF mgr.ctx = "start_vcpus"
              THEN /\ vm' = f.vm
                   /\ mgr' = MgrReturn(m, IF f.res = "Ok" /\ fault = Fault("seccomp", 1)
                                           THEN "SeccompFilters" ELSE f.res)
                   /\ UNCHANGED <<threads, chan>>
              ELSE IF f.res # "Ok"
              THEN /\ vm' = f.vm /\ mgr' = x.mgr /\ threads' = x.threads
                   /\ UNCHANGED chan
              ELSE IF fault = Fault("upcall", 1)
              THEN /\ vm' = f.vm
                   /\ mgr' = MgrReturn(m, "Upcall")
                   /\ UNCHANGED <<threads, chan>>
              ELSE /\ vm' = set_vcpus_action(f.vm, "Hotplug", mgr.batch)
                   /\ mgr' = MgrReturn(m, "Ok")
                   /\ chan' = send_upcall_action(chan, "AddVcpu")
                   /\ UNCHANGED threads
    /\ VcpuOthers

ExitAllVcpus ==
    /\ MgrIdle
    /\ LET x == ExitVcpus(vm, [mgr EXCEPT !.teardown = TRUE], threads, "exit_all_vcpus",
                          present_vcpus(vm), "none")
       IN  mgr' = x.mgr /\ threads' = x.threads
    /\ UNCHANGED <<vm, chan>>
    /\ VcpuOthers

\* the second loop of exit_vcpus has joined every thread: the handles are
\* taken, tids is truncated (tids.len() - cpu_indexes.len() is a usize: when
\* it underflows the build either panics or wraps), and the caller goes on
JoinComplete ==
    /\ mgr.pc = "joining"
    /\ JoinsReturn(threads, Range(mgr.batch))
    /\ LET ids == Range(mgr.batch)
           underflow == Len(vm.tids) < Len(mgr.batch)
           joined == [vm EXCEPT !.vcpu_infos =
                        [i \in DOMAIN @ |-> IF i \in ids THEN [@[i] EXCEPT !.handle = FALSE]
                                            ELSE @[i]],
                                !.tids = IF underflow THEN @
                                         ELSE SubSeq(@, 1, Len(@) - Len(mgr.batch))]
           f == ActionFinish(joined, chan.sync)
       IN  /\ threads' = [i \in DOMAIN threads |->
                            IF i \in ids THEN ThreadNone ELSE threads[i]]
           /\ \E wraps \in (IF underflow THEN BOOLEAN ELSE {TRUE}) :
                IF ~wraps
                THEN /\ vm' = [joined EXCEPT !.tids = vm.tids]
                     /\ mgr' = MgrReturn(mgr, "panic")
                     /\ UNCHANGED chan
                ELSE IF mgr.ctx = "exit_all_vcpus"
                THEN /\ vm' = [joined EXCEPT !.vcpu_infos = <<>>, !.io_manager = FALSE]
                     /\ mgr' = MgrReturn(mgr, "Ok")
                     /\ UNCHANGED chan
                ELSE IF mgr.ctx = "process_cpu_action"
                THEN /\ vm' = f.vm
                     /\ mgr' = MgrReturn(mgr, "Ok")
                     /\ chan' = [chan EXCEPT !.sync = f.sync]
                ELSE /\ vm' = joined
                     /\ mgr' = MgrReturn(mgr, mgr.err)
                     /\ UNCHANGED chan
    /\ VcpuOthers

\* process_cpu_state_event: one turn of the loop over the received events
ProcessCpuStateEvent ==
    /\ MgrIdle
    /\ chan.rx # <<>>
    /\ LET event == Head(chan.rx)
           c == [chan EXCEPT !.rx = Tail(@)]
           f == ActionFinish(vm, chan.sync)
           n == sync_action_finish(set_vcpus_action(vm, "None", <<>>), chan.sync, TRUE)
           x == ExitVcpus(vm, mgr, threads, "process_cpu_action",
                          vm.vcpus_in_action[2], "none")
       IN  IF ~EventSuccess(event)
           THEN /\ mgr' = MgrReturn(mgr, "Ignored")
                /\ chan' = c
                /\ UNCHANGED <<vm, threads>>
           ELSE IF get_vcpus_action(vm) = "Hotplug"
           THEN /\ vm' = f.vm
                /\ mgr' = MgrReturn(mgr, "Ok")
                /\ chan' = [c EXCEPT !.sync = f.sync]
                /\ UNCHANGED threads
           ELSE IF get_vcpus_action(vm) = "None"
           THEN /\ vm' = n.vm
                /\ mgr' = MgrReturn(mgr, "CannotBeHere")
                /\ chan' = [c EXCEPT !.sync = n.sync]
                /\ UNCHANGED threads
           ELSE IF x.sent
           THEN /\ mgr' = x.mgr /\ threads' = x.threads /\ chan' = c
                /\ UNCHANGED vm
           ELSE /\ vm' = f.vm
                /\ mgr' = MgrReturn(mgr, "StopVcpusError")
                /\ threads' = x.threads
                /\ chan' = [c EXCEPT !.sync = f.sync]
    /\ VcpuOthers

\* the guest answers the upcall: the callback of send_upcall_action
GuestRespond ==
    /\ chan.guest # "none"
    /\ \E result \in {0, 1} :
          chan' = [chan EXCEPT !.guest = "none", !.rx = Append(@, <<result, 1>>)]
    /\ UNCHANGED <<vm, mgr, threads>>
    /\ VcpuOthers

\* UpcallClientResponse::UpcallReset
UpcallReset ==
    /\ chan.guest # "none"
    /\ chan' = [chan EXCEPT !.guest = "none", !.rx = Append(@, <<0, 0>>)]
    /\ UNCHANGED <<vm, mgr, threads>>
    /\ VcpuOthers

\* a started thread comes to the barrier given to start_threaded
ReachBarrier ==
    /\ \E i \in DOMAIN threads :
          /\ threads[i].state = "spawned"
          /\ LET b == BarrierArrive(mgr, threads, i)
             IN  mgr' = b.mgr /\ threads' = b.threads
    /\ UNCHANGED <<vm, chan>>
    /\ VcpuOthers

\* a running thread takes VcpuEvent::Exit from its channel and ends
HandleExit ==
    /\ \E i \in DOMAIN threads :
          /\ threads[i].state = "running" /\ threads[i].exit_sent
          /\ threads' = [threads EXCEPT ![i].state = "exited"]
    /\ UNCHANGED <<vm, mgr, chan>>
    /\ VcpuOthers

\* a running thread panics
ThreadPanic ==
    /\ mgr.faults < MaxFaults
    /\ \E i \in DOMAIN threads :
          /\ threads[i].state = "running"
          /\ threads' = [threads EXCEPT ![i].state = "panicked"]
    /\ mgr' = [mgr EXCEPT !.faults = @ + 1]
    /\ UNCHANGED <<vm, chan>>
    /\ VcpuOthers

NextVcpu ==
    \/ CreateVcpus \/ StartVcpus \/ ActivateContinue \/ SetUpcallChannel
    \/ ResizeVcpu \/ ExitAllVcpus \/ JoinComplete \/ ProcessCpuStateEvent
    \/ GuestRespond \/ UpcallReset
    \/ ReachBarrier \/ HandleExit \/ ThreadPanic

\* VcpuManager::new with one slot more than MaxVcpu, before any call
NewWiderVcpuManager ==
    /\ vm = VcpuManagerNew /\ MgrIdle /\ mgr.faults = 0
    /\ vm' = VcpuManagerWith(MaxVcpu + 1)
    /\ UNCHANGED <<mgr, threads, chan>>
    /\ VcpuOthers

InitVcpu ==
    /\ vm = VcpuManagerNew
    /\ mgr = [pc |-> "idle", ctx |-> "none", batch |-> <<>>, created |-> <<>>,
              err |-> "none", barrier |-> [parties |-> 1, arrived |-> 0],
              teardown |-> FALSE, faults |-> 0]
    /\ threads = [i \in 0..MaxVcpu |-> ThreadNone]
    /\ chan = [guest |-> "none", rx |-> <<>>, sync |-> <<>>]

(***************************************************************************)
(* The guest memory handle (vm_as: GuestMemoryAtomic<GuestMemoryMmap>).    *)
(* GuestMemoryMmap objects live in a heap and are named by their index, 0  *)
(* being no object: a handle, a snapshot and a local variable are indices, *)
(* so that two holders of one object see each other's changes to it.  A    *)
(* region is named by its position in guest-physical order.                *)
(* Ghost fields: seen[r] is the list reader r found when it loaded its     *)
(* snapshot, inserted the runtime regions whose create_region returned Ok. *)
(***************************************************************************)
Readers == {"vcpu", "device"}

GmResult(ok, heap, m) == [ok |-> ok, heap |-> heap, m |-> m]

\* a variant that adds the region to the object it is given
insert_region_in_place(heap, m, region) ==
    IF region \in Range(heap[m])
    THEN GmResult(FALSE, heap, 0)
    ELSE GmResult(TRUE,
             [heap EXCEPT ![m] = SortedSeq(Range(heap[m]) \cup {region})], m)

\* GuestMemoryMmap::insert_region: a new object holding the regions of the
\* old one and the new region, in address order; an error when the region
\* overlaps one already there.  The old object is left as it was.
insert_region(heap, m, region) ==
    IF region \in Range(heap[m])
    THEN GmResult(FALSE, heap, 0)
    ELSE GmResult(TRUE,
             Append(heap, SortedSeq(Range(heap[m]) \cup {region})),
             Len(heap) + 1)

GmOthers == UNCHANGED <<pools, rm_last, as_mgr, vm, mgr, threads, chan,
                        callers, prealloc>>

\* create_address_space is called with the regions of the layout:
\* vm_memory = GuestMemoryMmap::default()
BootBegin ==
    /\ guest_memory.boot = "none"
    /\ \E n \in 1..MaxRegions :
          guest_memory' = [guest_memory EXCEPT
              !.boot = "building", !.want = n,
              !.heap = Append(@, <<>>), !.vm_memory = Len(guest_memory.heap) + 1]
    /\ GmOthers

\* one turn of the loop of create_address_space: the next region is mapped
\* and vm_memory = vm_memory.insert_region(mmap_reg)?
BootInsertRegion ==
    /\ guest_memory.boot = "building"
    /\ Len(guest_memory.heap[guest_memory.vm_memory]) < guest_memory.want
    /\ LET g == guest_memory
           r == insert_region(g.heap, g.vm_memory, Len(g.heap[g.vm_memory]) + 1)
       IN  guest_memory' = [g EXCEPT !.heap = r.heap, !.vm_memory = r.m]
    /\ GmOthers

\* a turn of the loop that fails (mmap, slot or KVM error): the `?` returns
\* before vm_as is assigned
BootFail ==
    /\ guest_memory.boot = "building"
    /\ Len(guest_memory.heap[guest_memory.vm_memory]) < guest_memory.want
    /\ guest_memory' = [guest_memory EXCEPT !.boot = "failed"]
    /\ GmOthers

\* after the loop: self.vm_as = Some(AddressSpace::convert_into_vm_as(vm_memory))
BootPublish ==
    /\ guest_memory.boot = "building"
    /\ Len(guest_memory.heap[guest_memory.vm_memory]) = guest_memory.want
    /\ guest_memory' = [guest_memory EXCEPT
           !.boot = "done", !.vm_as = guest_memory.vm_memory]
    /\ GmOthers

\* a vCPU thread or a device backend takes a snapshot: vm_as.memory()
ReaderLoad ==
    /\ guest_memory.vm_as # 0
    /\ \E r \in Readers :
          guest_memory' = [guest_memory EXCEPT
              !.snap[r] = guest_memory.vm_as,
              !.seen[r] = guest_memory.heap[guest_memory.vm_as]]
    /\ GmOthers

\* MemoryRegionFactory::create_region up to self.vm_as.memory(): the region
\* is mapped and registered with KVM, the current object is loaded
CreateRegionLoad ==
    /\ guest_memory.vm_as # 0
    /\ guest_memory.w.pc = "idle"
    /\ Cardinality(guest_memory.inserted) < MaxRegions
    /\ \E region \in 1..(2 * MaxRegions) :
          guest_memory' = [guest_memory EXCEPT
              !.w = [pc |-> "loaded", m |-> guest_memory.vm_as, region |-> region]]
    /\ GmOthers

\* .insert_region(guest_mmap_region.clone()).map_err(InsertMmap)?
CreateRegionInsert ==
    /\ guest_memory.w.pc = "loaded"
    /\ LET g == guest_memory
           r == insert_region(g.heap, g.w.m, g.w.region)
       IN  guest_memory' =
              IF r.ok
              THEN [g EXCEPT !.heap = r.heap, !.w.pc = "built", !.w.m = r.m]
              ELSE [g EXCEPT !.w = [pc |-> "idle", m |-> 0, region |-> 0]]
    /\ GmOthers

\* self.vm_as.lock().unwrap().replace(vm_as_new), and the return of Ok
CreateRegionReplace ==
    /\ guest_memory.w.pc = "built"
    /\ guest_memory' = [guest_memory EXCEPT
           !.vm_as = guest_memory.w.m,
           !.inserted = @ \cup {guest_memory.w.region},
           !.w = [pc |-> "idle", m |-> 0, region |-> 0]]
    /\ GmOthers

NextGuestMemory ==
    \/ BootBegin \/ BootInsertRegion \/ BootFail \/ BootPublish
    \/ ReaderLoad
    \/ CreateRegionLoad \/ CreateRegionInsert \/ CreateRegionReplace

InitGuestMemory ==
    guest_memory = [heap |-> <<>>, vm_memory |-> 0, boot |-> "none", want |-> 0,
                    vm_as |-> 0,
                    w |-> [pc |-> "idle", m |-> 0, region |-> 0],
                    snap |-> [r \in Readers |-> 0],
                    seen |-> [r \in Readers |-> <<>>],
                    inserted |-> {}]

(***************************************************************************)
(* Prefault ("PreallocThread") workers of create_mmap_region and           *)
(* wait_prealloc.  A region is a run of 4 KiB pages, each page stands for  *)
(* its first byte.  shadow is the memory as the guest's writes alone make  *)
(* it; a worker's late counts the pages it touched since the flag of its   *)
(* region was set, raced tells that a byte changed between its read and    *)
(* its compare_exchange; wait.result is the value of the last              *)
(* wait_prealloc.                                                          *)
(***************************************************************************)
MAX_TOUCH_THREAD == 2     \* scaled from 16

TOUCH_GRANULARITY == 1    \* scaled from 32: one more worker per 2 pages

Bytes == {0, 1}

\* the hugepage regions mapped with MAP_POPULATE, in the order of the loop
PreallocRegions == <<"r1", "r2">>

TouchThreads == 0..(MAX_TOUCH_THREAD - 1)

WorkerNone == [pc |-> "none", page |-> 0, end |-> 0, read_byte |-> 0, late |-> 0,
               raced |-> FALSE]

\* touch_thread = min((size >> TOUCH_GRANULARITY) + 1, MAX_TOUCH_THREAD)
touch_thread(npage) ==
    LET t == (npage \div Pow2(TOUCH_GRANULARITY)) + 1
    IN  IF t >= MAX_TOUCH_THREAD THEN MAX_TOUCH_THREAD ELSE t

\* a variant whose last worker ends like the others, at per_npage * (n + 1)
SpawnWorkerEvenShare(npage, n) ==
    LET per_npage == npage \div touch_thread(npage)
    IN  IF n >= touch_thread(npage)
        THEN WorkerNone
        ELSE [pc |-> "check", page |-> per_npage * n, end |-> per_npage * (n + 1),
              read_byte |-> 0, late |-> 0, raced |-> FALSE]

\* worker n of touch_thread(npage): start_npage..end_npage
SpawnWorker(npage, n) ==
    LET per_npage == npage \div touch_thread(npage)
    IN  IF n >= touch_thread(npage)
        THEN WorkerNone
        ELSE [pc |-> "check", page |-> per_npage * n,
              end |-> IF n = touch_thread(npage) - 1 THEN npage ELSE per_npage * (n + 1),
              read_byte |-> 0, late |-> 0, raced |-> FALSE]

\* a variant that stores the byte it read
compare_exchange_store(current, expected, new) == new

\* AtomicU8::compare_exchange: the byte after the operation
compare_exchange(current, expected, new) ==
    IF current = expected THEN new ELSE current

PaOthers == UNCHANGED <<pools, rm_last, as_mgr, vm, mgr, threads, chan,
                        callers, guest_memory>>

Created == {k \in 1..Len(PreallocRegions) : prealloc.npage[PreallocRegions[k]] > 0}

\* create_address_space maps the next hugepage region: its workers are
\* spawned and run from now on, their handles and the flag are kept
SpawnPrealloc ==
    /\ prealloc.wait.pc = "idle"
    /\ Cardinality(Created) < Len(PreallocRegions)
    /\ \E npage \in 1..MaxRegionSize :
          LET r == PreallocRegions[Cardinality(Created) + 1]
              hs == [j \in 1..touch_thread(npage) |-> <<r, touch_thread(npage) - j>>]
          IN  prealloc' = [prealloc EXCEPT
                  !.npage[r] = npage,
                  !.mem[r] = [p \in 0..(npage - 1) |-> 0],
                  !.shadow[r] = [p \in 0..(npage - 1) |-> 0],
                  !.worker[r] = [n \in TouchThreads |-> SpawnWorker(npage, n)],
                  !.prealloc_handlers = @ \o hs,
                  !.prealloc_should_stops = Append(@, r),
                  !.wait.result = "none"]
    /\ PaOthers

\* a variant of the head of the loop that never looks at the flag
WorkerCheckNoStop ==
    /\ \E r \in Range(PreallocRegions), n \in TouchThreads :
          LET w == prealloc.worker[r][n]
          IN  /\ w.pc = "check"
              /\ prealloc' = [prealloc EXCEPT !.worker[r][n] =
                     IF w.page >= w.end
                     THEN [w EXCEPT !.pc = "done"]
                     ELSE [w EXCEPT !.pc = "touch",
                                    !.read_byte = prealloc.mem[r][w.page]]]
    /\ PaOthers

\* the head of the worker's loop: the range is done, or the flag is set
\* (break), or the first byte of the page is read
WorkerCheck ==
    /\ \E r \in Range(PreallocRegions), n \in TouchThreads :
          LET w == prealloc.worker[r][n]
          IN  /\ w.pc = "check"
              /\ prealloc' = [prealloc EXCEPT !.worker[r][n] =
                     IF w.page >= w.end \/ prealloc.should_stop[r]
                     THEN [w EXCEPT !.pc = "done"]
                     ELSE [w EXCEPT !.pc = "touch",
                                    !.read_byte = prealloc.mem[r][w.page]]]
    /\ PaOthers

\* compare_exchange(read_byte, read_byte) on the page, per_addr += PAGE_SIZE
WorkerTouch ==
    /\ \E r \in Range(PreallocRegions), n \in TouchThreads :
          LET w == prealloc.worker[r][n]
          IN  /\ w.pc = "touch"
              /\ prealloc' = [prealloc EXCEPT
                     !.mem[r][w.page] = compare_exchange(@, w.read_byte, w.read_byte),
                     !.worker[r][n] = [w EXCEPT
                         !.pc = "check", !.page = @ + 1,
                         !.late = IF prealloc.should_stop[r] THEN @ + 1 ELSE @,
                         !.raced = @ \/ prealloc.mem[r][w.page] # w.read_byte]]
    /\ PaOthers

\* the guest or a device backend writes the first byte of a page
GuestWrite ==
    /\ \E r \in Range(PreallocRegions), v \in Bytes :
          \E p \in DOMAIN prealloc.mem[r] :
             prealloc' = [prealloc EXCEPT !.mem[r][p] = v, !.shadow[r][p] = v]
    /\ PaOthers

\* wait_prealloc(stop) is called
WaitBegin ==
    /\ prealloc.wait.pc = "idle"
    /\ \E stop \in BOOLEAN :
          prealloc' = [prealloc EXCEPT
              !.wait = [pc |-> IF stop THEN "stop" ELSE "join",
                        stop |-> stop, result |-> "none"]]
    /\ PaOthers

\* while let Some(should_stop) = self.prealloc_should_stops.pop()
WaitStop ==
    /\ prealloc.wait.pc = "stop"
    /\ LET q == prealloc.prealloc_should_stops
       IN  prealloc' =
              IF q = <<>>
              THEN [prealloc EXCEPT !.wait.pc = "join"]
              ELSE [prealloc EXCEPT
                       !.should_stop[q[Len(q)]] = TRUE,
                       !.prealloc_should_stops = SubSeq(q, 1, Len(q) - 1)]
    /\ PaOthers

\* while let Some(handlers) = self.prealloc_handlers.pop(): join() returns
\* when the thread has ended; after the last one, Ok(())
WaitJoin ==
    /\ prealloc.wait.pc = "join"
    /\ LET q == prealloc.prealloc_handlers
       IN  IF q = <<>>
           THEN prealloc' = [prealloc EXCEPT !.wait.pc = "idle", !.wait.result = "Ok"]
           ELSE /\ prealloc.worker[q[Len(q)][1]][q[Len(q)][2]].pc = "done"
                /\ prealloc' = [prealloc EXCEPT
                       !.worker[q[Len(q)][1]][q[Len(q)][2]].pc = "joined",
                       !.prealloc_handlers = SubSeq(q, 1, Len(q) - 1)]
    /\ PaOthers

WorkerStep == WorkerCheck \/ WorkerTouch

WaitStep == WaitStop \/ WaitJoin

NextPrealloc == SpawnPrealloc \/ WorkerCheck \/ WorkerTouch \/ WaitBegin \/ WaitStop \/ WaitJoin

\* one region, its workers and the writers of its memory
NextPrefault ==
    \/ (Created = {} /\ SpawnPrealloc)
    \/ WorkerCheck \/ WorkerTouch \/ GuestWrite

InitPrealloc ==
    prealloc = [npage |-> [r \in Range(PreallocRegions) |-> 0],
                mem |-> [r \in Range(PreallocRegions) |-> <<>>],
                shadow |-> [r \in Range(PreallocRegions) |-> <<>>],
                should_stop |-> [r \in Range(PreallocRegions) |-> FALSE],
                worker |-> [r \in Range(PreallocRegions) |->
                               [n \in TouchThreads |-> WorkerNone]],
                prealloc_handlers |-> <<>>,
                prealloc_should_stops |-> <<>>,
                wait |-> [pc |-> "idle", stop |-> FALSE, result |-> "none"]]

(***************************************************************************)
(* Specifications.                                                         *)
(***************************************************************************)
\* the state after the three managers are constructed
Init == InitRM /\ InitAS /\ InitVcpu /\ InitCallers /\ InitGuestMemory /\ InitPrealloc

SpecRM == Init /\ [][NextRM]_vars

SpecAS == Init /\ [][NextAS]_vars

SpecVcpu == Init /\ [][NextVcpu]_vars

\* the vCPU manager built with MaxVcpu + 1 slots
NextVcpuWide ==
    \/ NewWiderVcpuManager
    \/ (vm.max_vcpu_count = MaxVcpu + 1 /\ NextVcpu)

SpecVcpuWide == Init /\ [][NextVcpuWide]_vars

\* the address space is built on a resource manager whose memory-slot pool
\* other callers have used before the build
NextASRM ==
    \/ (RmRunning /\ CreateAddressSpace)
    \/ (as_mgr.state = "default" /\ (AllocateKvmMemSlot \/ FreeKvmMemSlot))

SpecASRM == Init /\ [][NextASRM]_vars

\* the allocate_* and free_* operations of the six pools, called one by one
NextPools ==
    \/ AllocateLegacyIrq \/ FreeLegacyIrq
    \/ AllocateMsiIrq \/ AllocateMsiIrqAligned \/ FreeMsiIrq
    \/ AllocatePioAddress \/ FreePioAddress
    \/ AllocateMmioAddress \/ FreeMmioAddress
    \/ AllocateMemAddress \/ FreeMemAddress
    \/ AllocateKvmMemSlot \/ FreeKvmMemSlot

SpecPools == Init /\ [][NextPools]_vars

\* several threads calling one resource manager
SpecConc == Init /\ [][NextConc]_vars

\* the memory-slot pool alone, used until it is exhausted
NextSlot == AllocateKvmMemSlotAny \/ FreeKvmMemSlot

SpecSlot == Init /\ [][NextSlot]_vars

\* the guest memory handle: the boot, the event loop inserting regions, readers
SpecGuestMemory == Init /\ [][NextGuestMemory]_vars

\* prefault workers running against writers of the same memory
SpecPrefault == Init /\ [][NextPrefault]_vars

\* prefault workers and wait_prealloc
SpecPrealloc == Init /\ [][NextPrealloc]_vars

\* threads that can run do run: every worker and the caller of wait_prealloc
\* are scheduled by the operating system
SpecPreallocFair == SpecPrealloc /\ WF_vars(WorkerStep) /\ WF_vars(WaitStep)

(***************************************************************************)
(* Claims about the resource manager.                                      *)
(***************************************************************************)
\* the range(s) each pool manages, from the layout constants
InitialRanges(p) ==
    CASE p = "legacy" -> {<<LEGACY_IRQ_BASE + 1, LEGACY_IRQ_MAX>>}
      [] p = "msi" -> {<<MSI_IRQ_BASE, MSI_IRQ_MAX>>}
      [] p = "pio" -> {<<PIO_MIN, PIO_MAX>>}
      [] p = "mmio" -> {<<MMIO_LOW_START, MMIO_LOW_END>>, <<GUEST_MEM_END + 1, GUEST_PHYS_END>>}
      [] p = "mem" -> {<<GUEST_MEM_START, MMIO_LOW_START - 1>>, <<MMIO_LOW_END + 1, GUEST_MEM_END>>}
      [] p = "slot" -> {<<0, MaxKvmMemSlot>>}

\* C1: in every pool, after any sequence of allocate_* / free_* operations, the
\* allocated intervals are pairwise non-overlapping and each lies inside the
\* pool's initial range.
C1_NoOverlapInRange ==
    \A p \in PoolIds :
        /\ \A a \in pools[p], b \in pools[p] : a # b => ~Overlap(a, b)
        /\ \A a \in pools[p] :
              /\ a[1] <= a[2]
              /\ \E r \in InitialRanges(p) : r[1] <= a[1] /\ a[2] <= r[2]

\* two MSI blocks are allocated side by side, and a legacy irq after a free
C1_Witness ==
    \/ /\ rm_last = RmLast("allocate_msi_irq", "Some")
       /\ Cardinality(pools["msi"]) = 2
    \/ /\ rm_last = RmLast("free_mmio_address", "Ok")
       /\ Cardinality(pools["mmio"]) = 2

\* C2: a failing allocate_device_resources returns NoAvailResource and leaves
\* every pool as it was before the call (the resources granted for the earlier
\* requests have been freed).
C2_AtomicBatchAllocation ==
    [][(rm_last'.op = "allocate_device_resources" /\ rm_last'.res # "Ok")
          => (rm_last'.res = "NoAvailResource" /\ pools' = pools)]_vars

(***************************************************************************)
(* Claims about the address space manager.                                 *)
(***************************************************************************)
\* create_address_space was called and its first loop built every region
LayoutDone == as_mgr.state # "default" /\ as_mgr.err # "CreateAddressSpaceRegion"

\* the positions in as_mgr.regions of the regions made for the i-th info
RegionsOf(i) == {j \in 1..Len(as_mgr.regions) : as_mgr.regions[j].info = i}

RequestedBytes(i) == as_mgr.infos[i] * (2 ^ MIB_SHIFT)

\* the span [start, start + size) of the i-th info intersects the hole
CrossesHole(i) ==
    /\ RegionsOf(i) # {}
    /\ LET s == as_mgr.regions[Min(RegionsOf(i))].start
       IN  s <= MMIO_LOW_END /\ s + RequestedBytes(i) > MMIO_LOW_START

HoleLen == MMIO_LOW_END + 1 - MMIO_LOW_START

RegionClearOfHole(r) == r.start + r.len <= MMIO_LOW_START \/ r.start > MMIO_LOW_END

RECURSIVE SumLen(_, _)
SumLen(regions, J) ==
    IF J = {} THEN 0
    ELSE LET j == CHOOSE x \in J : TRUE
         IN  regions[j].len + SumLen(regions, J \ {j})

RECURSIVE SumRequested(_)
SumRequested(n) == IF n = 0 THEN 0 ELSE RequestedBytes(n) + SumRequested(n - 1)

\* C9 (as stated): a NUMA region crossing the hole gives exactly two regions
\* whose lengths add up to the region's length minus the length of the hole,
\* neither of them overlapping the hole.
C9_SplitLengthMinusHole ==
    LayoutDone =>
        \A i \in 1..Len(as_mgr.infos) : CrossesHole(i) =>
            /\ Cardinality(RegionsOf(i)) = 2
            /\ SumLen(as_mgr.regions, RegionsOf(i)) = RequestedBytes(i) - HoleLen
            /\ \A j \in RegionsOf(i) : RegionClearOfHole(as_mgr.regions[j])

\* C9 (amended): a NUMA region crossing the hole gives exactly two regions, one
\* ending at MMIO_LOW_START and one starting at MMIO_LOW_END + 1, whose lengths
\* add up to the full requested size (the hole is skipped, not subtracted), and
\* neither of them overlaps the hole.
C9_SplitKeepsLength ==
    LayoutDone =>
        \A i \in 1..Len(as_mgr.infos) : CrossesHole(i) =>
            /\ Cardinality(RegionsOf(i)) = 2
            /\ SumLen(as_mgr.regions, RegionsOf(i)) = RequestedBytes(i)
            /\ \A j \in RegionsOf(i) : RegionClearOfHole(as_mgr.regions[j])
            /\ LET b == as_mgr.regions[Min(RegionsOf(i))]
                   a == as_mgr.regions[Max(RegionsOf(i))]
               IN  b.start + b.len = MMIO_LOW_START /\ a.start = MMIO_LOW_END + 1

\* a successful call in which a region with memory on both sides was split
C9_Witness ==
    /\ as_mgr.state = "Ok"
    /\ \E i \in 1..Len(as_mgr.infos) :
          /\ CrossesHole(i)
          /\ \A j \in RegionsOf(i) : as_mgr.regions[j].len > 0

\* C10: the regions follow the input order from GUEST_MEM_START, each starting
\* where the previous one ended except the part after the hole, which starts
\* at MMIO_LOW_END + 1; they are pairwise disjoint, at most one info is split
\* and the lengths add up to the requested sizes.
C10_SequentialLayout ==
    LayoutDone =>
        LET regions == as_mgr.regions
            n == Len(regions)
        IN  /\ n > 0 => regions[1].start = GUEST_MEM_START
            /\ \A i \in 1..Len(as_mgr.infos) : RegionsOf(i) # {}
            /\ \A j \in 1..(n - 1) :
                  /\ regions[j].info <= regions[j + 1].info
                  /\ \/ regions[j + 1].start = regions[j].start + regions[j].len
                     \/ /\ regions[j + 1].start = MMIO_LOW_END + 1
                        /\ regions[j + 1].info = regions[j].info
                        /\ regions[j].start + regions[j].len = MMIO_LOW_START
            /\ \A j \in 1..n, k \in 1..n :
                  j < k => regions[j].start + regions[j].len <= regions[k].start
            /\ Cardinality({i \in 1..Len(as_mgr.infos) : Cardinality(RegionsOf(i)) > 1}) <= 1
            /\ \A i \in 1..Len(as_mgr.infos) : Cardinality(RegionsOf(i)) <= 2
            /\ SumLen(regions, 1..n) = SumRequested(Len(as_mgr.infos))

\* a successful call with a region split by the hole and a region after it
C10_Witness ==
    /\ as_mgr.state = "Ok"
    /\ Len(as_mgr.infos) = 2
    /\ Len(as_mgr.regions) = 3
    /\ Cardinality(RegionsOf(1)) = 2

(***************************************************************************)
(* Claims about the vCPU manager.                                          *)
(***************************************************************************)
InFlight == vm.vcpus_in_action[1] \in {"Hotplug", "Hotunplug"}

\* C3: while a hot-plug or hot-unplug is in flight, every resize_vcpu call
\* returns VcpuIsHotplugging and changes nothing: the action tag, its vCPU
\* list and the stored completion sender stay as they are, and no request is
\* queued for the guest.
C3_SerializedResize ==
    (MgrIdle /\ InFlight) =>
        \A vcpu_count \in VcpuCounts, sync_tx \in BOOLEAN :
            LET r == resize_vcpu(vm, mgr, threads, chan, vcpu_count, sync_tx, NoFault)
            IN  /\ r.res = "VcpuIsHotplugging"
                /\ r.vm = vm
                /\ r.chan = chan
                /\ r.threads = threads
                /\ r.mgr = mgr

\* a hot-unplug with a completion sender is in flight and the manager is callable
C3_Witness ==
    /\ MgrIdle
    /\ vm.vcpus_in_action[1] = "Hotunplug"
    /\ vm.action_sycn_tx
    /\ chan.guest = "DelVcpu"

\* the threads of the batch that have not passed the barrier yet
BeforeBarrier(B) == {i \in B : threads[i].state \in {"spawned", "waiting"}}

\* C4: the barrier of a batch of N vCPUs has N + 1 parties, and neither a
\* thread of the batch nor the manager goes past it before all N threads of
\* the batch have reached it.
C4_BarrierOrdering ==
    LET B == Range(mgr.batch)
    IN  IF mgr.pc \in {"barrier", "released"}
        THEN /\ mgr.barrier.parties = Len(mgr.batch) + 1
             /\ (\E i \in B : threads[i].state \notin {"spawned", "waiting"})
                    => \A j \in B : threads[j].state # "spawned"
             /\ mgr.pc = "released" => BeforeBarrier(B) = {}
        ELSE BeforeBarrier(DOMAIN threads) = {}

\* a batch of two threads has passed the barrier together with the manager
C4_Witness ==
    /\ mgr.pc = "released"
    /\ Len(mgr.batch) = 2
    /\ \A i \in Range(mgr.batch) : threads[i].state = "running"

HotunplugList == IF vm.vcpus_in_action[1] = "Hotunplug" THEN Range(vm.vcpus_in_action[2]) ELSE {}

\* C5 (as stated): calculate_removable_vcpus never selects index 0, and the
\* list tracked for a Hotunplug action never contains index 0.
C5_ZeroNeverRemovable ==
    /\ 0 \notin Range(calculate_removable_vcpus(vm))
    /\ 0 \notin HotunplugList

\* C5 (amended): calculate_removable_vcpus returns every present vCPU, index 0
\* included when it is present; do_del_vcpu takes fewer vCPUs than are present,
\* from the highest index down, so that the list tracked for a Hotunplug
\* action never contains index 0, and vCPU 0 stays present during the action.
C5_ZeroNeverUnplugged ==
    /\ Range(calculate_removable_vcpus(vm)) = {i \in DOMAIN vm.vcpu_infos : vm.vcpu_infos[i].handle}
    /\ 0 \notin HotunplugList
    /\ (HotunplugList # {} /\ ~mgr.teardown) => vm.vcpu_infos[0].handle

\* a hot-unplug is in flight while vCPU 0 is among the removable vCPUs
C5_Witness ==
    /\ HotunplugList # {}
    /\ 0 \in Range(calculate_removable_vcpus(vm))

\* the step takes a successful acknowledgement from the event channel
TakesSuccessfulAck == chan.rx # <<>> /\ Head(chan.rx)[1] # 0 /\ chan'.rx = Tail(chan.rx)

\* C6: accepting a hot-remove sends no Exit event and stops no thread, and
\* every vCPU it targets is present; while the hot-unplug is in flight (and
\* the VM is not being torn down by exit_all_vcpus) an Exit event is sent to
\* a targeted thread only by the step that processes the guest's successful
\* acknowledgement, a targeted thread stops only in answer to an Exit event,
\* and a targeted vCPU loses its thread handle only when the manager joins
\* the threads after that acknowledgement.
C6_ExitAfterAck ==
    [][/\ (get_vcpus_action(vm) # "Hotunplug" /\ get_vcpus_action(vm') = "Hotunplug")
            => /\ threads' = threads
               /\ \A i \in Range(vm'.vcpus_in_action[2]) : vm'.vcpu_infos[i].handle
       /\ \A i \in HotunplugList : ~mgr'.teardown =>
             /\ (~threads[i].exit_sent /\ threads'[i].exit_sent) => TakesSuccessfulAck
             /\ (threads[i].state \notin {"exited", "none"}
                   /\ threads'[i].state \in {"exited", "none"}) => threads[i].exit_sent
             /\ (vm.vcpu_infos[i].handle /\ ~vm'.vcpu_infos[i].handle) =>
                   (mgr.pc = "joining" /\ mgr.ctx = "process_cpu_action")]_vars

\* the acknowledgement was processed: Exit is with the targeted threads and
\* the manager joins them
C6_Witness ==
    /\ mgr.pc = "joining" /\ mgr.ctx = "process_cpu_action" /\ ~mgr.teardown
    /\ mgr.batch # <<>>
    /\ \A i \in Range(mgr.batch) : threads[i].exit_sent /\ vm.vcpu_infos[i].handle

\* C7: once the response to an accepted resize (success, failure or upcall
\* reset) has been processed, the in-flight action is back to None and the
\* completion sender has been used, the receiver holding exactly one value.
C7_ResizeCompletes ==
    [][(MgrIdle /\ InFlight /\ chan.rx # <<>> /\ chan'.rx = Tail(chan.rx)
            /\ mgr'.pc = "idle")
          => /\ vm'.vcpus_in_action = <<"None", <<>>>>
             /\ ~vm'.action_sycn_tx
             /\ vm.action_sycn_tx => Len(chan'.sync) = 1]_vars

\* the step clears the vCPU slots or releases the I/O manager
Releases ==
    DOMAIN vm'.vcpu_infos # DOMAIN vm.vcpu_infos \/ vm'.io_manager # vm.io_manager

\* C8 (as stated): the slots are cleared and the I/O manager released only
\* when Exit was sent to every present vCPU and every thread was joined
\* successfully; otherwise neither is released.
C8_ReleaseAfterSuccessfulJoins ==
    [][Releases =>
          /\ mgr.pc = "joining" /\ mgr.ctx = "exit_all_vcpus"
          /\ Range(mgr.batch) = Range(present_vcpus(vm))
          /\ \A i \in Range(mgr.batch) : threads[i].exit_sent /\ threads[i].state = "exited"
          /\ vm'.vcpu_infos = <<>> /\ ~vm'.io_manager]_vars

\* C8 (amended): the slots are cleared and the I/O manager released, both in
\* one step, only when Exit was sent to every present vCPU and every one of
\* those threads has terminated and been joined; a join that reports an error
\* (the thread panicked) is logged and does not prevent the release.  When an
\* Exit event cannot be sent, neither is released.
C8_ReleaseAfterJoins ==
    [][/\ Releases =>
          /\ mgr.pc = "joining" /\ mgr.ctx = "exit_all_vcpus"
          /\ Range(mgr.batch) = Range(present_vcpus(vm))
          /\ \A i \in Range(mgr.batch) :
                threads[i].exit_sent /\ threads[i].state \in {"exited", "panicked"}
          /\ vm'.vcpu_infos = <<>> /\ ~vm'.io_manager
       /\ (MgrIdle /\ \E i \in Range(present_vcpus(vm)) : ~SendEventOk(threads, i))
             => ~ExitVcpus(vm, mgr, threads, "exit_all_vcpus", present_vcpus(vm), "none").sent]_vars

\* exit_all_vcpus has sent Exit to two present vCPUs, both threads have
\* terminated, one of them by a panic, and the joins are about to return
C8_Witness ==
    /\ mgr.pc = "joining" /\ mgr.ctx = "exit_all_vcpus"
    /\ Len(mgr.batch) >= 2
    /\ vm.io_manager /\ vm.vcpu_infos # <<>>
    /\ \A i \in Range(mgr.batch) : threads[i].exit_sent /\ threads[i].state \in {"exited", "panicked"}
    /\ \E i \in Range(mgr.batch) : threads[i].state = "panicked"

(***************************************************************************)
(* Claims about the address space manager and the resource manager.        *)
(***************************************************************************)
\* the step is a successful create_address_space
BuildSucceeds == as_mgr.state = "default" /\ as_mgr'.state = "Ok"

\* the infos of manager m that were split in two regions
SplitInfos(m) ==
    {i \in 1..Len(m.infos) :
        Cardinality({j \in 1..Len(m.regions) : m.regions[j].info = i}) = 2}

\* C11: a successful create_address_space takes as many memory slots from the
\* resource manager as there are regions (one per NUMA info, plus one when a
\* region was split), and base_to_slot maps the base address of each region
\* to a slot of its own among the slots taken.
C11_OneSlotPerRegion ==
    [][BuildSucceeds =>
          LET regions == as_mgr'.regions
              n == Len(regions)
              taken == pools'["slot"] \ pools["slot"]
              map == as_mgr'.base_to_slot
          IN  /\ pools["slot"] \subseteq pools'["slot"]
              /\ Cardinality(taken) = n
              /\ n = Len(as_mgr'.infos) + Cardinality(SplitInfos(as_mgr'))
              /\ Cardinality(SplitInfos(as_mgr')) <= 1
              /\ Cardinality(map) = n
              /\ \A j \in 1..n : \E e \in map :
                     /\ e[1] = regions[j].start
                     /\ <<e[2], e[2]>> \in taken
                     /\ \A f \in map : f # e => (f[1] # e[1] /\ f[2] # e[2])]_vars

\* two infos, the first split by the hole, gave three regions and three slots
\* on a manager one of whose slots another caller holds
C11_Witness ==
    /\ as_mgr.state = "Ok"
    /\ Len(as_mgr.infos) = 2
    /\ Len(as_mgr.regions) = 3
    /\ Cardinality(as_mgr.base_to_slot) = 3
    /\ Cardinality(pools["slot"]) = 4

\* the interval [start address, last address] of a region
RegionInterval(r) == <<r.start, r.start + r.len - 1>>

\* the region is not empty and ends inside guest memory
InGuestMemory(r) == r.len > 0 /\ r.start + r.len - 1 <= GUEST_MEM_END

\* constraints a later caller may give to allocate_mem_address
MemProbes ==
    {Constraint(size, align, min, max) :
        size \in Sizes, align \in Aligns, min \in GUEST_MEM_START..GUEST_MEM_END,
        max \in {NoneVal, GUEST_MEM_END}}

\* no later allocate_mem_address returns a range overlapping a region
NoLaterOverlap ==
    \A c \in MemProbes :
        LET a == allocate_mem_address(pools, c)
        IN  a.ret # NoneVal =>
              \A j \in 1..Len(as_mgr.regions) :
                  ~Overlap(<<a.ret, a.ret + c.size - 1>>, RegionInterval(as_mgr.regions[j]))

BuildFails ==
    /\ as_mgr.state = "default"
    /\ as_mgr'.err \in {"MmapGuestMemory", "Madvise", "NoAvailableResource",
                        "KvmSetMemorySlot"}

\* C13 (as stated): a failure partway through create_address_space is rolled
\* back: the pools are as before the call, base_to_slot and the NUMA table
\* have no entries, no prefault thread is left and the manager is
\* uninitialized.
C13_FailureRolledBack ==
    [][BuildFails =>
          /\ pools' = pools
          /\ as_mgr'.base_to_slot = {}
          /\ as_mgr'.numa_nodes = <<>>
          /\ as_mgr'.prealloc_handlers = 0
          /\ ~as_mgr'.address_space /\ ~as_mgr'.vm_as]_vars

\* C13 (amended): a failure at the k-th region is returned at once and
\* nothing is rolled back: the guest-memory ranges of regions 1..k stay
\* reserved, as do the memory slots of regions 1..k-1 (and of region k when
\* the kernel rejects it), base_to_slot keeps the entries of regions 1..k-1,
\* the NUMA table keeps every region, the prefault threads of the regions
\* mapped so far stay with the manager, and the manager is uninitialized.
C13_FailureKeepsReservations ==
    [][BuildFails =>
          LET regions == as_mgr'.regions
              k == Cardinality(pools'["mem"] \ pools["mem"])
              mapped == IF as_mgr'.err \in {"MmapGuestMemory", "Madvise"} THEN k - 1 ELSE k
              slots == IF as_mgr'.err = "KvmSetMemorySlot" THEN k ELSE k - 1
          IN  /\ k \in 1..Len(regions)
              /\ pools["mem"] \subseteq pools'["mem"]
              /\ pools'["mem"] \ pools["mem"] = {RegionInterval(regions[j]) : j \in 1..k}
              /\ pools["slot"] \subseteq pools'["slot"]
              /\ Cardinality(pools'["slot"] \ pools["slot"]) = slots
              /\ \A p \in PoolIds \ {"mem", "slot"} : pools'[p] = pools[p]
              /\ {e[1] : e \in as_mgr'.base_to_slot} = {regions[j].start : j \in 1..(k - 1)}
              /\ Cardinality(as_mgr'.base_to_slot) = k - 1
              /\ Len(as_mgr'.numa_nodes) = Len(regions)
              /\ as_mgr'.prealloc_handlers = mapped
              /\ ~as_mgr'.address_space /\ ~as_mgr'.vm_as]_vars

\* the kernel rejected the memory slot of the second or a later region
C13_Witness ==
    /\ as_mgr.err = "KvmSetMemorySlot"
    /\ Cardinality(as_mgr.base_to_slot) >= 1
    /\ as_mgr.prealloc_handlers >= 2
    /\ ~as_mgr.address_space

(***************************************************************************)
(* Claims about the memory-slot pool.                                      *)
(***************************************************************************)
\* the slot numbers that are allocated
SlotsTaken == UNION {u[1]..u[2] : u \in pools["slot"]}

AllSlotsTaken == SlotsTaken = UNION {r[1]..r[2] : r \in init_kvm_mem_slot_pool}

\* C14: allocate_kvm_mem_slot with a fixed slot above the configured maximum,
\* or with any arguments when every slot is taken, returns None without a
\* panic and leaves the pools as they were; a call that returns None never
\* changes the pools.
C14_SlotExhaustionRecoverable ==
    [][/\ \A size \in Sizes, fixed \in FixedSlots :
              (fixed > MaxKvmMemSlot \/ AllSlotsTaken)
                  => allocate_kvm_mem_slot(pools, size, fixed) = Ret(pools, NoneVal, FALSE)
       /\ (rm_last'.op = "allocate_kvm_mem_slot" /\ rm_last'.res # "Some")
              => (rm_last'.res = "None" /\ pools' = pools)]_vars

\* allocate_kvm_mem_slot returned None because every slot was taken
C14_Witness ==
    /\ rm_last = RmLast("allocate_kvm_mem_slot", "None")
    /\ AllSlotsTaken

\* C15: the pool made by ResourceManager::new(Some(N)) holds N slots: no more
\* than N slots are ever allocated at one time, and once N are allocated the
\* next single-slot allocation returns None.
C15_PoolHoldsMaxSlots ==
    /\ Cardinality(SlotsTaken) <= MaxKvmMemSlot
    /\ Cardinality(SlotsTaken) = MaxKvmMemSlot
          => allocate_kvm_mem_slot(pools, 1, NoneVal).ret = NoneVal

(***************************************************************************)
(* Claims about the interrupt pools.                                       *)
(***************************************************************************)
\* C16: the shared legacy irq is never owned: a shared allocation returns
\* SHARED_IRQ and leaves the pools unchanged, free_legacy_irq(SHARED_IRQ)
\* changes nothing and does not panic, a non-shared allocation returns only
\* an irq in [LEGACY_IRQ_BASE + 1, LEGACY_IRQ_MAX] and records exactly it,
\* and a fixed irq outside that range gives None.
C16_SharedIrqNeverOwned ==
    /\ <<SHARED_IRQ, SHARED_IRQ>> \notin pools["legacy"]
    /\ free_legacy_irq(pools, SHARED_IRQ) = Ret(pools, NoneVal, FALSE)
    /\ \A fixed \in FixedIrqs :
          /\ allocate_legacy_irq(pools, TRUE, fixed) = Ret(pools, SHARED_IRQ, FALSE)
          /\ LET r == allocate_legacy_irq(pools, FALSE, fixed)
             IN  /\ ~r.panic
                 /\ r.ret # NoneVal =>
                       /\ r.ret \in (LEGACY_IRQ_BASE + 1)..LEGACY_IRQ_MAX
                       /\ r.ret # SHARED_IRQ
                       /\ fixed # NoneVal => r.ret = fixed
                       /\ r.pools = [pools EXCEPT !["legacy"] = @ \cup {<<r.ret, r.ret>>}]
                 /\ r.ret = NoneVal => r.pools = pools
                 /\ (fixed # NoneVal /\ fixed \notin (LEGACY_IRQ_BASE + 1)..LEGACY_IRQ_MAX)
                       => r.ret = NoneVal

\* allocate_legacy_irq has just returned an irq and the pool owns none: the
\* call was a shared one
C16_Witness ==
    /\ rm_last = RmLast("allocate_legacy_irq", "Some")
    /\ pools["legacy"] = {}
    /\ Live(pools) > 0

\* the MSI irqs that are allocated
MsiTaken == UNION {u[1]..u[2] : u \in pools["msi"]}

\* r is the outcome of allocating a block of count MSI irqs
MsiBlockGranted(count, r, aligned) ==
    /\ ~r.panic
    /\ r.ret # NoneVal =>
          /\ r.ret..(r.ret + count - 1) \subseteq MSI_IRQ_BASE..MSI_IRQ_MAX
          /\ r.ret..(r.ret + count - 1) \cap MsiTaken = {}
          /\ aligned => r.ret % count = 0
          /\ r.pools = [pools EXCEPT !["msi"] = @ \cup {<<r.ret, r.ret + count - 1>>}]
    /\ r.ret = NoneVal => r.pools = pools
    /\ count > MsiSpan => r.ret = NoneVal

\* C18: allocate_msi_irq(count) and allocate_msi_irq_aligned(count) return
\* the base of a block of count irqs inside [MSI_IRQ_BASE, MSI_IRQ_MAX], all
\* of them free before the call and recorded as one interval after it; the
\* base of the aligned variant is a multiple of count; a count larger than
\* the pool gives None.
C18_MsiBlocks ==
    \A count \in 1..(MsiSpan + 1) :
        /\ MsiBlockGranted(count, allocate_msi_irq(pools, count), FALSE)
        /\ MsiBlockGranted(count, allocate_msi_irq_aligned(pools, count), TRUE)

\* allocate_msi_irq_aligned has returned a block, and in this state the
\* aligned and the plain allocation of two irqs differ
C18_Witness ==
    /\ rm_last = RmLast("allocate_msi_irq_aligned", "Some")
    /\ pools["msi"] # {}
    /\ allocate_msi_irq(pools, 2).ret # allocate_msi_irq_aligned(pools, 2).ret

(***************************************************************************)
(* Claims about the allocation order.                                      *)
(***************************************************************************)
\* [b, b + c.size - 1] is a free interval of pool p that satisfies c
FreeFit(p, c, b) ==
    /\ c.size > 0
    /\ b % c.align = 0
    /\ b >= c.min
    /\ c.max # NoneVal => b + c.size - 1 <= c.max
    /\ \E r \in InitialRanges(p) : r[1] <= b /\ b + c.size - 1 <= r[2]
    /\ \A u \in pools[p] : u[2] < b \/ b + c.size - 1 < u[1]

\* ret is the lowest base of a free interval of p satisfying c, or None when
\* there is no such interval
LowestFit(p, c, ret) ==
    LET lo == Min({r[1] : r \in InitialRanges(p)})
        hi == Max({r[2] : r \in InitialRanges(p)})
    IN  IF ret = NoneVal
        THEN \A b \in lo..hi : ~FreeFit(p, c, b)
        ELSE /\ FreeFit(p, c, ret)
             /\ \A b \in lo..(ret - 1) : ~FreeFit(p, c, b)

\* the constraint the wrappers build for an optional fixed number
FixedConstraint(size, fixed) ==
    IF fixed = NoneVal THEN ConstraintNew(size) ELSE Constraint(size, 1, fixed, fixed)

\* C19: in every pool an allocation returns the lowest base of a free
\* interval that satisfies the constraint (size, alignment, min and max),
\* and None only when no free interval satisfies it.
C19_LowestFit ==
    /\ \A fixed \in FixedIrqs :
          LowestFit("legacy", FixedConstraint(1, fixed),
                    allocate_legacy_irq(pools, FALSE, fixed).ret)
    /\ \A count \in 1..(MsiSpan + 1) :
          /\ LowestFit("msi", ConstraintNew(count), allocate_msi_irq(pools, count).ret)
          /\ LowestFit("msi", Constraint(count, count, 0, NoneVal),
                       allocate_msi_irq_aligned(pools, count).ret)
    /\ \A c \in PioConstraints : LowestFit("pio", c, allocate_pio_address(pools, c).ret)
    /\ \A c \in MmioConstraints : LowestFit("mmio", c, allocate_mmio_address(pools, c).ret)
    /\ \A c \in MemConstraints : LowestFit("mem", c, allocate_mem_address(pools, c).ret)
    /\ \A size \in Sizes, fixed \in FixedSlots :
          LowestFit("slot", FixedConstraint(size, fixed),
                    allocate_kvm_mem_slot(pools, size, fixed).ret)

\* an MMIO range above guest memory has been allocated while the low MMIO
\* hole still has room, and the next free slot is not slot 0
C19_Witness ==
    /\ rm_last = RmLast("allocate_mmio_address", "Some")
    /\ \E u \in pools["mmio"] : u[1] > GUEST_MEM_END
    /\ allocate_mmio_address(pools, ConstraintNew(1)).ret \in MMIO_LOW_START..MMIO_LOW_END
    /\ allocate_kvm_mem_slot(pools, 1, NoneVal).ret > 0

(***************************************************************************)
(* Claims about the free_* operations.                                     *)
(***************************************************************************)
\* the sizes a caller may pass to a free_* operation, the invalid 0 included
FreeSizes == {0} \cup Sizes

\* the outcome of a free of [base, base + size - 1] that must be a panic:
\* the interval is not allocated in pool p
MustPanic(p, base, size, r) == <<base, base + size - 1>> \notin pools[p] => r.panic

\* C17: every free_* operation panics when the interval it is given is not
\* allocated in its pool (never allocated, already freed, outside the pool,
\* or of size 0); the one exception is free_legacy_irq(SHARED_IRQ), which
\* returns normally and changes nothing.
C17_FreeUnallocatedPanics ==
    /\ free_legacy_irq(pools, SHARED_IRQ) = Ret(pools, NoneVal, FALSE)
    /\ \A irq \in ((LEGACY_IRQ_BASE - 1)..(LEGACY_IRQ_MAX + 1)) \ {SHARED_IRQ} :
          MustPanic("legacy", irq, 1, free_legacy_irq(pools, irq))
    /\ \A irq \in (MSI_IRQ_BASE - 1)..(MSI_IRQ_MAX + 1), count \in FreeSizes :
          MustPanic("msi", irq, count, free_msi_irq(pools, irq, count))
    /\ \A base \in PIO_MIN..PIO_MAX, size \in FreeSizes :
          MustPanic("pio", base, size, free_pio_address(pools, base, size))
    /\ \A base \in GUEST_MEM_START..(GUEST_PHYS_END + 1), size \in FreeSizes :
          /\ MustPanic("mmio", base, size, free_mmio_address(pools, base, size))
          /\ MustPanic("mem", base, size, free_mem_address(pools, base, size))
    /\ \A slot \in 0..(MaxKvmMemSlot + 2) :
          MustPanic("slot", slot, 1, free_kvm_mem_slot(pools, slot))

\* a free_mmio_address of a range that was not allocated has panicked, with
\* another MMIO range allocated
C17_Witness ==
    /\ rm_last = RmLast("free_mmio_address", "panic")
    /\ pools["mmio"] # init_mmio_reserved

(***************************************************************************)
(* Claims about the ranges reserved at initialisation.                     *)
(***************************************************************************)
\* the addresses of the range reserved below the end of the low MMIO hole
ReservedAddrs == (MMIO_LOW_END + 1 - X86_RESERVED_SIZE)..MMIO_LOW_END

\* the range r.ret .. r.ret + c.size - 1 returned for c avoids the addresses S
Avoids(r, c, S) == r.ret # NoneVal => r.ret..(r.ret + c.size - 1) \cap S = {}

\* C20: the range reserved at initialisation just below the end of the low
\* MMIO hole is never returned: in every state no allocate_mmio_address
\* returns a range that intersects it, and no allocate_mem_address returns a
\* range that reaches into the low MMIO hole.
C20_ReservedRangeNeverGranted ==
    /\ \A c \in MmioConstraints : Avoids(allocate_mmio_address(pools, c), c, ReservedAddrs)
    /\ \A c \in MemConstraints :
          Avoids(allocate_mem_address(pools, c), c, MMIO_LOW_START..MMIO_LOW_END)

(***************************************************************************)
(* Claims about several threads calling the resource manager.              *)
(***************************************************************************)
\* no caller is inside a call (and none has panicked)
Quiescent == \A t \in Callers : callers.thr[t].pc = "idle"

\* the ranges granted to the batch calls that are still allocating
InBatch == UNION {callers.thr[t].granted : t \in {x \in Callers : callers.thr[x].pc = "batch"}}

\* the ranges of pool p among S
RangesIn(S, p) == {<<o[2], o[3]>> : o \in {x \in S : x[1] = p}}

BootRegions == 1..guest_memory.want

Loaded == {r \in Readers : guest_memory.snap[r] # 0}

\* C22: every snapshot a reader holds is a complete region list (all boot
\* regions, plus runtime regions whose insertion completed, in address order),
\* it still is the list the reader loaded, the handle exists only once the
\* boot inserted every region, and the current object holds exactly the boot
\* regions and every region inserted at runtime so far.
C22_SnapshotsComplete ==
    LET g == guest_memory
    IN  /\ \A r \in Loaded :
              /\ g.heap[g.snap[r]] = g.seen[r]
              /\ BootRegions \subseteq Range(g.seen[r])
              /\ Range(g.seen[r]) \subseteq BootRegions \cup g.inserted
              /\ g.seen[r] = SortedSeq(Range(g.seen[r]))
        /\ g.vm_as # 0 =>
              /\ g.boot = "done"
              /\ Range(g.heap[g.vm_as]) = BootRegions \cup g.inserted

\* a reader holds the list from before two insertions, the other the current one
C22_Witness ==
    LET g == guest_memory
    IN  /\ Loaded = Readers
        /\ Cardinality(g.inserted) >= 2
        /\ Range(g.seen["vcpu"]) = BootRegions
        /\ g.seen["device"] = g.heap[g.vm_as]
        /\ g.w.pc = "idle"

(***************************************************************************)
(* Claims about the prefault workers.                                      *)
(***************************************************************************)
Workers == {<<r, n>> \in Range(PreallocRegions) \X TouchThreads :
               prealloc.worker[r][n].pc # "none"}

\* C23: whatever the interleaving of the prefault workers with writers of
\* the same bytes, guest memory is what the writers alone made it: a worker's
\* read and compare-and-swap of the value with itself never changes a byte.
C23_PrefaultKeepsData ==
    \A r \in Range(PreallocRegions) : prealloc.mem[r] = prealloc.shadow[r]

\* a worker has swapped on a byte that a writer changed after the worker's read
C23_Witness ==
    \E x \in Workers :
       /\ prealloc.worker[x[1]][x[2]].raced
       /\ prealloc.worker[x[1]][x[2]].pc = "done"
       /\ \E p \in DOMAIN prealloc.mem[x[1]] : prealloc.mem[x[1]][p] = 1

WaitReturnedOk == prealloc.wait.pc = "idle" /\ prealloc.wait.result = "Ok"

WaitSafe ==
    /\ WaitReturnedOk =>
          /\ prealloc.prealloc_handlers = <<>>
          /\ \A x \in Workers : prealloc.worker[x[1]][x[2]].pc = "joined"
    /\ (prealloc.wait.pc = "join" /\ prealloc.wait.stop) =>
          \A k \in Created : prealloc.should_stop[PreallocRegions[k]]
    /\ \A x \in Workers : prealloc.worker[x[1]][x[2]].late <= 1

\* C24: a call of wait_prealloc returns; it returns Ok only when no handle is
\* left and every worker spawned so far has ended and been joined; with
\* stop = true the flag of every region is set before the first join, and a
\* worker touches at most one more page once the flag of its region is set.
C24_WaitPrealloc ==
    /\ []WaitSafe
    /\ (prealloc.wait.pc # "idle") ~> (prealloc.wait.pc = "idle")

\* wait_prealloc(true) has returned Ok with both regions mapped, and a worker
\* it stopped had touched one page after the flag and left pages untouched
C24_Witness ==
    /\ WaitReturnedOk
    /\ prealloc.wait.stop
    /\ Cardinality(Created) = Len(PreallocRegions)
    /\ \E x \in Workers :
          /\ prealloc.worker[x[1]][x[2]].late = 1
          /\ prealloc.worker[x[1]][x[2]].page < prealloc.worker[x[1]][x[2]].end

(***************************************************************************)
(* Claims about failures in the vCPU manager.                              *)
(***************************************************************************)
\* the step leaves the slots as create_vcpus(n) does when fault makes it fail
\* with a creation or configuration error
CreateFails(n, fault) ==
    /\ create_vcpus(vm, n, fault).res = "Vcpu"
    /\ vm'.vcpu_infos = create_vcpus(vm, n, fault).vm.vcpu_infos

\* a call of the manager returns in this step, struck by a fault
FaultyCall ==
    /\ MgrIdle /\ mgr'.pc = "idle" /\ mgr'.faults = mgr.faults + 1
    /\ threads' = threads

SlotKept(i) ==
    /\ vm'.vcpu_infos[i].vcpu = vm.vcpu_infos[i].vcpu
    /\ vm'.vcpu_infos[i].handle = vm.vcpu_infos[i].handle

\* C25 (as stated): when create_vcpus fails on a slot, that slot is left
\* without a vCPU object and without a handle, and every other slot, the set
\* of present vCPUs and the in-flight action are as before the request.
C25_FailureLeavesSlots ==
    [][FaultyCall => \A n \in VcpuCounts : \A fault \in CreateFaults(vm, n) :
          CreateFails(n, fault) =>
             /\ \A i \in DOMAIN vm.vcpu_infos : SlotKept(i)
             /\ present_vcpus(vm') = present_vcpus(vm)
             /\ vm'.vcpus_in_action = vm.vcpus_in_action]_vars

\* C25 (amended): when create_vcpus fails on a slot, that slot is as it was
\* (no new vCPU object, no handle), the slots created earlier in the same
\* request hold the vCPU objects created for them, and every other slot, the
\* set of present vCPUs and the in-flight action are as before the request.
C25_FailureLeavesFailedSlot ==
    [][FaultyCall => \A n \in VcpuCounts : \A fault \in CreateFaults(vm, n) :
          CreateFails(n, fault) =>
             LET ids == AvailableIds(vm, n)
                 earlier == {ids[j] : j \in 1..(fault.k - 1)}
             IN  /\ SlotKept(ids[fault.k])
                 /\ \A i \in earlier :
                       vm'.vcpu_infos[i].vcpu
                          /\ vm'.vcpu_infos[i].handle = vm.vcpu_infos[i].handle
                 /\ \A i \in DOMAIN vm.vcpu_infos \ earlier : SlotKept(i)
                 /\ present_vcpus(vm') = present_vcpus(vm)
                 /\ vm'.vcpus_in_action = vm.vcpus_in_action]_vars

\* create_vcpus has failed configuring vCPU 1 after creating vCPU 0: slot 0
\* holds its vCPU object, slot 1 only the kernel descriptor
C25_Witness ==
    /\ MgrIdle /\ mgr.faults = 1
    /\ DOMAIN vm.vcpu_infos = VcpuIds
    /\ vm.vcpu_infos[0].vcpu /\ ~vm.vcpu_infos[1].vcpu /\ vm.vcpu_infos[1].vcpu_fd
    /\ \A i \in VcpuIds : ~vm.vcpu_infos[i].handle /\ threads[i].state = "none"

\* a hot-add that started vCPUs returns an error in this step: it is past
\* the barrier or in its rollback, it returns, and no Hotplug action is set
HotAddFails ==
    /\ mgr.ctx \in {"do_add_vcpu", "rollback"}
    /\ mgr'.pc = "idle"
    /\ get_vcpus_action(vm') # "Hotplug"

\* C26: when a hot-add that started vCPUs returns an error, whether the
\* activation failed or the request to the guest could not be sent, every
\* vCPU started in the batch has been exited and joined (the present vCPUs
\* are those from before the call), the vCPUs that were running are
\* untouched, and no action is in flight.
C26_HotAddRolledBack ==
    [][HotAddFails =>
          /\ \A i \in Range(mgr.created) :
                ~vm'.vcpu_infos[i].handle /\ threads'[i].state = "none"
          /\ \A i \in DOMAIN vm.vcpu_infos \ Range(mgr.created) :
                /\ vm'.vcpu_infos[i].handle = vm.vcpu_infos[i].handle
                /\ threads'[i] = threads[i]
          /\ get_vcpus_action(vm') = "None"]_vars

\* the manager is about to ask the threads of its batch for their ids
AwaitsTids ==
    /\ mgr.pc = "released" /\ mgr.batch # <<>>
    /\ \A j \in 1..Len(mgr.batch) : SendEventOk(threads, mgr.batch[j])

\* C27: in the thread-id handshake, the error reported when the receive
\* timeout expires differs from the error reported when the thread answers
\* with something else than its thread id.
C27_TimeoutDistinct ==
    AwaitsTids =>
       \A j \in 1..Len(mgr.batch) :
          get_vcpus_tid(vm, threads, mgr.batch, Fault("gettid", j)).res
             # get_vcpus_tid(vm, threads, mgr.batch, Fault("response", j)).res

(***************************************************************************)
(* Claims about the cached kernel descriptors and the vCPU limits.         *)
(***************************************************************************)
\* the kernel was never asked for a second vCPU of an index
KernelCreatesOnce == \A i \in VcpuIds : vm'.kvm_vcpus[i] <= 1

\* C28 (as stated): a cached kernel descriptor stays in its slot in every
\* step of the manager, and the kernel is asked at most once per index.
C28_FdPersists ==
    [][/\ KernelCreatesOnce
       /\ \A i \in DOMAIN vm.vcpu_infos :
             vm.vcpu_infos[i].vcpu_fd =>
                i \in DOMAIN vm'.vcpu_infos /\ vm'.vcpu_infos[i].vcpu_fd]_vars

\* C28 (amended): a cached kernel descriptor stays in its slot until
\* exit_all_vcpus clears every slot, after which nothing can be created;
\* create, start, hot-plug, hot-unplug and their failures keep it, the kernel
\* creates at most one vCPU per index, and a slot holds a descriptor exactly
\* when the kernel has a vCPU of its index.
C28_FdPersistsUntilExitAll ==
    [][/\ KernelCreatesOnce
       /\ \A i \in DOMAIN vm'.vcpu_infos :
             /\ vm'.vcpu_infos[i].vcpu_fd <=> vm'.kvm_vcpus[i] = 1
             /\ i \in DOMAIN vm.vcpu_infos
             /\ vm.vcpu_infos[i].vcpu_fd => vm'.vcpu_infos[i].vcpu_fd
       /\ DOMAIN vm'.vcpu_infos # DOMAIN vm.vcpu_infos =>
             /\ mgr.ctx = "exit_all_vcpus" /\ mgr.pc = "joining"
             /\ vm'.vcpu_infos = <<>>
             /\ vm'.kvm_vcpus = vm.kvm_vcpus]_vars

\* vCPU 1 was created, started and taken away again without any fault: its
\* slot is empty but for the descriptor, which a new creation will reuse
C28_Witness ==
    /\ MgrIdle /\ mgr.faults = 0
    /\ DOMAIN vm.vcpu_infos = VcpuIds
    /\ vm.vcpu_infos[1].vcpu_fd /\ vm.kvm_vcpus[1] = 1
    /\ ~vm.vcpu_infos[1].vcpu /\ ~vm.vcpu_infos[1].handle
    /\ threads[1].state = "none"
    /\ vm.vcpu_infos[0].handle

\* the calls of the manager that take a target count, asked for n vCPUs now:
\* each is refused with an exceed-max error and leaves everything as it is
RefusedAboveMax(n) ==
    /\ create_vcpus(vm, n, NoFault) = CreateResult(vm, "ExpectedVcpuExceedMax", <<>>, FALSE)
    /\ ActivateStart(vm, threads, n, NoFault)
          = StartResult(vm, threads, "ExpectedVcpuExceedMax", <<>>, FALSE)
    /\ do_add_vcpu(vm, mgr, threads, chan, n, NoFault)
          = Returned(vm, mgr, threads, chan, "ExpectedVcpuExceedMax")

\* C29: VcpuManager::new refuses a max_vcpu_count above the kernel's ceiling;
\* in every state of the manager create_vcpus, activate_vcpus and the hot-add
\* refuse a count above max_vcpu_count without creating or starting a vCPU;
\* at most max_vcpu_count vCPUs are present, every present or created vCPU
\* has an index below max_vcpu_count, and the kernel has none at or above it.
C29_LimitsEnforced ==
    /\ \A m \in 0..(MaxVcpu + 1), k \in 0..(MaxVcpu + 1) :
          (new_vcpu_manager(m, k) = "MaxVcpuLimitation") <=> m > k
    /\ MgrIdle => \A n \in VcpuCounts : n > MaxVcpu => RefusedAboveMax(n)
    /\ present_vcpus_count(vm) <= MaxVcpu
    /\ DOMAIN vm.vcpu_infos \subseteq VcpuIds
    /\ \A i \in DOMAIN vm.kvm_vcpus : i >= MaxVcpu => vm.kvm_vcpus[i] = 0
    /\ \A i \in DOMAIN threads : threads[i].state # "none" => i < MaxVcpu

\* every vCPU the manager allows is running and no action is in flight: a
\* request for one more can only be refused
C29_Witness ==
    /\ MgrIdle /\ vm.upcall_channel
    /\ present_vcpus_count(vm) = MaxVcpu
    /\ get_vcpus_action(vm) = "None"
    /\ \A i \in VcpuIds : threads[i].state = "running" /\ vm.kvm_vcpus[i] = 1

(***************************************************************************)
(* Claims about the failures of create_mmap_region.                        *)
(***************************************************************************)
\* create_address_space runs in this step
Builds == as_mgr.state = "default" /\ as_mgr'.state # "default"

LowestAbsent(v, n) ==
    Truncate(SortedSeq({i \in DOMAIN v.vcpu_infos : ~v.vcpu_infos[i].handle}), n)

\* the n highest-indexed slots with a thread handle, highest first
HighestPresent(v, n) == Truncate(Reverse(present_vcpus(v)), n)

\* what resize_vcpu(c) does when called now with no failure of the host
ResizeNow(c, sync_tx) == resize_vcpu(vm, mgr, threads, chan, c, sync_tx, NoFault)

\* resize_vcpu(c) called now is accepted and does what its target asks for
ResizeTracksTarget(c, sync_tx) ==
    LET r == ResizeNow(c, sync_tx)
        now == present_vcpus_count(vm)
    IN  /\ (r.res = "wait" /\ r.mgr.ctx = "do_add_vcpu") =>
              /\ c > now
              /\ r.mgr.batch = LowestAbsent(vm, c - now)
              /\ \A i \in DOMAIN r.vm.vcpu_infos :
                    r.vm.vcpu_infos[i].handle <=>
                        (vm.vcpu_infos[i].handle \/ i \in Range(r.mgr.batch))
              /\ \A i \in Range(r.mgr.batch) : r.threads[i].state = "spawned"
        /\ (r.res = "Ok" /\ c < now) =>
              /\ r.vm.vcpus_in_action = <<"Hotunplug", HighestPresent(vm, now - c)>>
              /\ r.vm.vcpu_infos = vm.vcpu_infos
              /\ r.chan.guest = "DelVcpu"
        /\ (r.res = "Ok" /\ c = now) =>
              /\ r.vm = [vm EXCEPT !.action_sycn_tx = FALSE]
              /\ get_vcpus_action(r.vm) = "None"
              /\ r.threads = threads /\ r.chan.guest = chan.guest
              /\ sync_tx => r.chan.sync = <<FALSE>>
        /\ (c = now /\ ~IsHotplugging(vm) /\ vm.upcall_channel) => r.res = "Ok"

\* the hot-add is accepted in this step: its vCPUs become the Hotplug list
HotAddAccepted == get_vcpus_action(vm) = "None" /\ get_vcpus_action(vm') = "Hotplug"

\* the manager is done with the guest's acknowledgement of a hot-unplug in
\* this step: at once, or after the joins of exit_vcpus
UnplugHandled ==
    /\ get_vcpus_action(vm) = "Hotunplug"
    /\ mgr'.pc = "idle"
    /\ \/ MgrIdle /\ TakesSuccessfulAck
       \/ mgr.pc = "joining" /\ mgr.ctx = "process_cpu_action"

\* C31 (as stated): an accepted resize_vcpu(c), 1 <= c <= max_vcpu_count,
\* starts the c - present lowest absent vCPUs and tracks them as the Hotplug
\* list, or tracks the present - c highest present vCPUs as the Hotunplug
\* list, which are absent once the guest's acknowledgement has been handled,
\* or, for c = present, changes nothing and signals completion at once.
C31_ResizeReachesTarget ==
    [][/\ MgrIdle /\ DOMAIN vm.vcpu_infos = VcpuIds =>
             \A c \in 1..MaxVcpu, sync_tx \in BOOLEAN : ResizeTracksTarget(c, sync_tx)
       /\ HotAddAccepted =>
             /\ vm'.vcpus_in_action[2] = mgr.batch
             /\ \A i \in Range(mgr.batch) : vm'.vcpu_infos[i].handle
             /\ vm'.vcpu_infos = vm.vcpu_infos
       /\ UnplugHandled =>
             /\ get_vcpus_action(vm') = "None"
             /\ \A i \in VcpuIds :
                   vm'.vcpu_infos[i].handle <=>
                       (vm.vcpu_infos[i].handle /\ i \notin Range(vm.vcpus_in_action[2]))]_vars

(***************************************************************************)
(* Claims about the life of a vCPU slot.                                   *)
(***************************************************************************)
\* the slots that are in the manager before and after the step
KeptSlots == DOMAIN vm.vcpu_infos \cap DOMAIN vm'.vcpu_infos

\* some create_vcpus called now stores a vCPU object in slot i
CreateStores(i) ==
    \E n \in VcpuCounts : \E fault \in {NoFault} \cup CreateFaults(vm, n) :
        create_vcpus(vm, n, fault).vm.vcpu_infos[i].vcpu

\* start_vcpus(n) called now comes to a slot that holds no vCPU object: it
\* returns VcpuNotCreate and the slot and its thread are as before
StartOfAbsentFails(n) ==
    LET ids == AvailableIds(vm, n)
        absent == {j \in 1..Len(ids) : ~vm.vcpu_infos[ids[j]].vcpu}
        r == ActivateStart(vm, threads, n, NoFault)
    IN  absent # {} =>
           /\ r.res = "VcpuNotCreate"
           /\ r.vm.vcpu_infos[ids[Min(absent)]] = vm.vcpu_infos[ids[Min(absent)]]
           /\ r.threads[ids[Min(absent)]] = threads[ids[Min(absent)]]
           /\ \A j \in absent : ~r.vm.vcpu_infos[ids[j]].handle

\* C32: a slot is empty at construction, gets a vCPU object only from a
\* create, gets a thread handle only from a start, which takes the object of
\* a slot that was created, and loses the handle only when exit_vcpus has
\* sent Exit to its thread and joined it; no slot holds an object and a
\* handle at once; starting a slot without an object fails with
\* VcpuNotCreate and leaves the slot as it was.
C32_SlotLifecycle ==
    /\ \A i \in VcpuIds : vm.vcpu_infos[i] = VcpuInfoDefault /\ threads[i] = ThreadNone
    /\ [](/\ \A i \in DOMAIN vm.vcpu_infos :
                ~(vm.vcpu_infos[i].vcpu /\ vm.vcpu_infos[i].handle)
          /\ MgrIdle /\ DOMAIN vm.vcpu_infos = VcpuIds =>
                \A n \in 0..MaxVcpu : StartOfAbsentFails(n))
    /\ [][/\ \A i \in KeptSlots :
                /\ (vm'.vcpu_infos[i].vcpu /\ ~vm.vcpu_infos[i].vcpu) =>
                      MgrIdle /\ CreateStores(i) /\ ~vm.vcpu_infos[i].handle
                /\ (vm'.vcpu_infos[i].handle /\ ~vm.vcpu_infos[i].handle) =>
                      /\ MgrIdle
                      /\ vm.vcpu_infos[i].vcpu \/ CreateStores(i)
                      /\ threads[i].state = "none" /\ threads'[i].state # "none"
                /\ (vm.vcpu_infos[i].handle /\ ~vm'.vcpu_infos[i].handle) =>
                      /\ mgr.pc = "joining" /\ i \in Range(mgr.batch)
                      /\ threads[i].exit_sent
                      /\ threads[i].state \in {"exited", "panicked"}
          /\ \A i \in DOMAIN vm.vcpu_infos \ DOMAIN vm'.vcpu_infos :
                vm.vcpu_infos[i].handle => mgr.pc = "joining" /\ i \in Range(mgr.batch)]_vars

\* vCPU 0 was started, hot-removed or exited, and created again, while
\* another slot holds a running thread's handle
C32_Witness ==
    /\ DOMAIN vm.vcpu_infos = VcpuIds
    /\ \E i, j \in VcpuIds :
          /\ vm.vcpu_infos[i].vcpu /\ ~vm.vcpu_infos[i].handle /\ vm.kvm_vcpus[i] = 1
          /\ vm.vcpu_infos[j].handle /\ ~vm.vcpu_infos[j].vcpu /\ threads[j].state = "running"
          /\ vm.tids # <<>>

(***************************************************************************)
(* Claims about the start barrier and the published thread ids.            *)
(***************************************************************************)
\* the threads that were spawned and have not passed their barrier
HeldAtBarrier ==
    {i \in DOMAIN threads : threads[i].state \in {"spawned", "waiting", "blocked"}}

\* C33: once the manager has left activate_vcpus, returning from the start or
\* joining the threads of a rollback or an exit, no thread is held at the
\* barrier of its batch, so that every join ends.
C33_BarrierAlwaysReleased ==
    mgr.pc \in {"idle", "joining"} => HeldAtBarrier = {}

\* the vCPU indices of the entries of shared_info.tids
TidIds == {vm.tids[k][1] : k \in 1..Len(vm.tids)}

\* C34: whenever the manager is between calls, shared_info.tids holds one
\* entry (index, thread id) for each vCPU that has a thread, and no other.
C34_TidsMatchThreads ==
    (MgrIdle /\ DOMAIN vm.vcpu_infos = VcpuIds) =>
        /\ TidIds = {i \in VcpuIds : vm.vcpu_infos[i].handle}
        /\ Len(vm.tids) = Cardinality(TidIds)
        /\ \A k \in 1..Len(vm.tids) : vm.tids[k][2] = ThreadTid(vm.tids[k][1])

(***************************************************************************)
(* Claims about the order of the present vCPUs.                            *)
(***************************************************************************)
\* the indices of the slots of manager v that hold a thread handle
PresentSet(v) == {i \in DOMAIN v.vcpu_infos : v.vcpu_infos[i].handle}

\* C35: in a manager of MaxVcpu + 1 slots as in any other, the present vCPUs
\* are always the indices 0..n-1; a step that starts
\* vCPUs starts indices above every present one, a hot-remove lists the
\* highest present indices and the handling of its acknowledgement stops
\* exactly those, which are therefore the vCPUs started last.
C35_PresentIsPrefix ==
    /\ [](PresentSet(vm) = 0..(Cardinality(PresentSet(vm)) - 1))
    /\ [][/\ DOMAIN vm'.vcpu_infos = DOMAIN vm.vcpu_infos =>
                \A i \in PresentSet(vm') \ PresentSet(vm), j \in PresentSet(vm) : i > j
          /\ (get_vcpus_action(vm) = "None" /\ get_vcpus_action(vm') = "Hotunplug") =>
                /\ vm'.vcpus_in_action[2] # <<>>
                /\ vm'.vcpus_in_action[2] =
                      HighestPresent(vm, Len(vm'.vcpus_in_action[2]))
                /\ PresentSet(vm') = PresentSet(vm)
          /\ (mgr.pc = "joining" /\ mgr.ctx = "process_cpu_action" /\ mgr'.pc = "idle") =>
                /\ PresentSet(vm) \ PresentSet(vm') = Range(mgr.batch)
                /\ \A i \in Range(mgr.batch), j \in PresentSet(vm') : i > j]_vars

(***************************************************************************)
(* Allocation followed by the matching free.                               *)
(***************************************************************************)
\* f, the free of what a has allocated from the pools P, returns normally,
\* restores P, and the same request then gives the same range again
FreeUndoes(P, a, f, again) ==
    a.ret # NoneVal =>
        /\ ~f.panic
        /\ f.pools = P
        /\ again.ret = a.ret

AllocFreePio(P, c) ==
    LET a == allocate_pio_address(P, c)
        f == free_pio_address(a.pools, a.ret, c.size)
    IN  FreeUndoes(P, a, f, allocate_pio_address(f.pools, c))

AllocFreeMmio(P, c) ==
    LET a == allocate_mmio_address(P, c)
        f == free_mmio_address(a.pools, a.ret, c.size)
    IN  FreeUndoes(P, a, f, allocate_mmio_address(f.pools, c))

AllocFreeMem(P, c) ==
    LET a == allocate_mem_address(P, c)
        f == free_mem_address(a.pools, a.ret, c.size)
    IN  FreeUndoes(P, a, f, allocate_mem_address(f.pools, c))

AllocFreeMsi(P, count) ==
    LET a == allocate_msi_irq(P, count)
        f == free_msi_irq(a.pools, a.ret, count)
    IN  FreeUndoes(P, a, f, allocate_msi_irq(f.pools, count))

AllocFreeLegacy(P, fixed) ==
    LET a == allocate_legacy_irq(P, FALSE, fixed)
        f == free_legacy_irq(a.pools, a.ret)
    IN  FreeUndoes(P, a, f, allocate_legacy_irq(f.pools, FALSE, fixed))

AllocFreeSlot(P, fixed) ==
    LET a == allocate_kvm_mem_slot(P, 1, fixed)
        f == free_kvm_mem_slot(a.pools, a.ret)
    IN  FreeUndoes(P, a, f, allocate_kvm_mem_slot(f.pools, 1, fixed))

\* the same for the resources granted to one device request
AllocFreeDevice(P, r) ==
    LET a == allocate_device_resources(P, <<r>>, FALSE)
        f == free_device_resources(a.pools, a.resources)
    IN  a.result = "Ok" =>
            /\ ~f.panic
            /\ f.pools = P
            /\ allocate_device_resources(f.pools, <<r>>, FALSE).resources = a.resources

\* C36: in every pool, a range given by a successful allocate_* or held in
\* a DeviceResources set, a range at the very top of its pool included, is
\* released by the matching free_* / free_device_resources with the same
\* base and size without a panic; the pool's allocated set is then what it
\* was before the allocation and the same request succeeds again.
C36_AllocFreeInverse ==
    RmRunning =>
        /\ \A c \in PioConstraints : AllocFreePio(pools, c)
        /\ \A c \in MmioConstraints : AllocFreeMmio(pools, c)
        /\ \A c \in MemConstraints : AllocFreeMem(pools, c)
        /\ \A count \in Sizes : AllocFreeMsi(pools, count)
        /\ \A fixed \in FixedIrqs : AllocFreeLegacy(pools, fixed)
        /\ \A fixed \in FixedSlots : AllocFreeSlot(pools, fixed)
        /\ \A r \in Requests : AllocFreeDevice(pools, r)

(***************************************************************************)
(* The regions laid out around the low MMIO hole.                          *)
(***************************************************************************)
HoleAddrs == MMIO_LOW_START..MMIO_LOW_END

\* C37: for every list of NUMA region infos with positive sizes, every
\* region created by create_address_space has a strictly positive length
\* and starts outside the low MMIO hole; when the preceding regions end
\* exactly at MMIO_LOW_START the next region lies wholly above the hole and
\* is not split into an empty lower part.
C37_RegionsNonEmptyOutsideHole ==
    \A j \in 1..Len(as_mgr.regions) :
        /\ as_mgr.regions[j].len > 0
        /\ as_mgr.regions[j].start \notin HoleAddrs

(***************************************************************************)
(* A resize_vcpu that returns an error.                                    *)
(***************************************************************************)
\* the results with which resize_vcpu returns an error to its caller
ResizeErrors ==
    {"VcpuIsHotplugging", "UpdateNotAllowedPostBoot", "ExpectedVcpuExceedMax",
     "Vcpu0CanNotBeRemoved", "LackRemovableVcpus", "Vcpu", "Upcall"}

\* resize_vcpu(c, sync_tx) called now returns an error and the present
\* vCPUs, the action in flight and the stored sender are as before
RejectedResizeKeeps(c, sync_tx, fault) ==
    LET r == resize_vcpu(vm, Charge(mgr, fault), threads, chan, c, sync_tx, fault)
    IN  r.res \in ResizeErrors =>
            /\ present_vcpus(r.vm) = present_vcpus(vm)
            /\ r.vm.vcpus_in_action = vm.vcpus_in_action
            /\ r.vm.action_sycn_tx = vm.action_sycn_tx

\* C38: a resize_vcpu call that returns an error for any reason (already
\* hotplugging, no upcall channel, target above the maximum, target 0)
\* leaves the manager as it was: the present vCPUs, the action in flight
\* with its list and the stored completion sender are unchanged, so the
\* sender of the rejected caller is never retained.
C38_RejectedResizeChangesNothing ==
    MgrIdle =>
        \A c \in VcpuCounts, sync_tx \in BOOLEAN :
            \A fault \in Budget(mgr, ResizeFaults(vm, c)) :
                RejectedResizeKeeps(c, sync_tx, fault)

(***************************************************************************)
(* The manager after exit_all_vcpus.                                       *)
(***************************************************************************)
\* pause_vcpus / resume_vcpus: the loop stops at the first index whose slot
\* has no handle; indexing a slot that does not exist is a panic
RECURSIVE pause_vcpus(_, _)
pause_vcpus(v, cpu_indexes) ==
    IF cpu_indexes = <<>> THEN "Ok"
    ELSE IF Head(cpu_indexes) \notin DOMAIN v.vcpu_infos THEN "panic"
    ELSE IF ~v.vcpu_infos[Head(cpu_indexes)].handle THEN "VcpuNotFound"
    ELSE pause_vcpus(v, Tail(cpu_indexes))

resume_vcpus(v, cpu_indexes) == pause_vcpus(v, cpu_indexes)

\* exit_all_vcpus has returned Ok: the vector of slots is cleared
ExitedAll == MgrIdle /\ vm.vcpu_infos = <<>>

\* C39: after exit_all_vcpus has succeeded no vCPU is present, and every
\* later operation of the manager (create_vcpus, start_vcpus,
\* pause_all_vcpus, resume_all_vcpus, resize_vcpu) returns a result, Ok or
\* a typed error, and does not panic on a missing slot.
C39_NoPanicAfterExitAll ==
    ExitedAll =>
        /\ present_vcpus(vm) = <<>>
        /\ pause_vcpus(vm, present_vcpus(vm)) # "panic"
        /\ resume_vcpus(vm, present_vcpus(vm)) # "panic"
        /\ \A n \in VcpuCounts :
              /\ create_vcpus(vm, n, NoFault).res # "panic"
              /\ ActivateStart(vm, threads, n, NoFault).res # "panic"
              /\ \A sync_tx \in BOOLEAN :
                    resize_vcpu(vm, mgr, threads, chan, n, sync_tx, NoFault).res # "panic"

(***************************************************************************)
(* The page ranges of the prefault workers.                                *)
(***************************************************************************)
\* the workers spawned for region r in the state p of the prefault threads
WorkersOf(p, r) == {n \in TouchThreads : p.worker[r][n].pc # "none"}

\* the pages worker n of region r is to touch
PagesOf(p, r, n) == p.worker[r][n].page..(p.worker[r][n].end - 1)

\* region r is mapped in this step and its workers are spawned
Spawned(r) == prealloc.npage[r] = 0 /\ prealloc'.npage[r] > 0

\* min((size >> TOUCH_GRANULARITY) + 1, MAX_TOUCH_THREAD), size in pages
WorkerCount(npage) ==
    LET t == (npage \div (2 ^ TOUCH_GRANULARITY)) + 1
    IN  IF t < MAX_TOUCH_THREAD THEN t ELSE MAX_TOUCH_THREAD

\* C40: for a huge-page region populated eagerly the number of prefault
\* workers is min((region size >> TOUCH_GRANULARITY) + 1, MAX_TOUCH_THREAD);
\* worker n starts at page per_npage * n and ends before per_npage * (n + 1),
\* the last one before npage; the ranges are pairwise disjoint and together
\* hold every page index 0..npage-1 of the region exactly once.
C40_WorkersPartitionPages ==
    [][\A r \in Range(PreallocRegions) :
          Spawned(r) =>
              LET p == prealloc'
                  npage == p.npage[r]
                  W == WorkersOf(p, r)
                  per_npage == npage \div Cardinality(W)
              IN  /\ W = 0..(WorkerCount(npage) - 1)
                  /\ \A n \in W :
                        /\ p.worker[r][n].page = per_npage * n
                        /\ p.worker[r][n].end =
                              IF n = Cardinality(W) - 1 THEN npage ELSE per_npage * (n + 1)
                  /\ \A n, k \in W : n # k => PagesOf(p, r, n) \cap PagesOf(p, r, k) = {}
                  /\ UNION {PagesOf(p, r, n) : n \in W} = 0..(npage - 1)]_vars

\* a region whose pages do not divide evenly among its workers has just been
\* mapped: the last worker has the longer range
C40_Witness ==
    \E r \in Range(PreallocRegions) :
        LET W == WorkersOf(prealloc, r)
        IN  /\ Cardinality(W) = MAX_TOUCH_THREAD
            /\ prealloc.npage[r] % Cardinality(W) # 0
            /\ \A n \in W : prealloc.worker[r][n].pc = "check"
            /\ PagesOf(prealloc, r, 0) = 0..((prealloc.npage[r] \div Cardinality(W)) - 1)
            /\ Cardinality(PagesOf(prealloc, r, MAX_TOUCH_THREAD - 1))
                  > Cardinality(PagesOf(prealloc, r, 0))

=============================================================================
